---- MODULE Spec2Model ----
(***************************************************************************)
(* Batch management of the iris driver (iris_batch.c): the validation     *)
(* list of each batch, cross-batch hazard resolution, chaining, flush and  *)
(* reset.  One context with IRIS_BATCH_COUNT sibling batches sharing a set *)
(* of client buffer objects.  The file also holds the transfer maps of a  *)
(* virgl resource (virgl_resource.c), modelled on a resource of its own.   *)
(***************************************************************************)
EXTENDS Integers, Sequences, FiniteSets, TLC

\* ------------------------------------------------------------------ bounds
\* Command buffers that may exist at the same time, over all batches.
MaxCmdBOs == 3
\* Syncpoints the batches may create in a run: each reset creates one.
MaxSyncpts == 3
\* Hardware contexts of one batch that may exist at the same time.
MaxCtx == 2

\* Initial capacity of exec_bos and validation_list (scaled down).
ExecArrayInit == 3

\* Writes the virgl transfer queue may hold.
MaxQueued == 1

\* --------------------------------------------------------------- constants
IRIS_BATCH_COUNT == 2
BATCH_RESERVED == 16
\* Size of the command region of one chunk (scaled down).
BATCH_SZ == 8
NULL == 0
\* Value stored in bo->index when a BO is in no validation list.
NoIndex == -1
\* Largest value of the unsigned type, halved to fit TLC's 32-bit integers.
UINT_MAX == 2147483647

\* width0 of the mapped virgl resource, in units of
\* VIRGL_MAP_BUFFER_ALIGNMENT (scaled down).
VBufSize == 2
\* The host resources that may back the virgl resource, one at a time.
HwResIds == {1, 2}
\* Soft limit of the memory of queued staging resources (scaled down).
VIRGL_QUEUED_STAGING_RES_SIZE_LIMIT == 1
\* Staging memory that may be queued in a run: one unit over the limit.
MaxStaging == VIRGL_QUEUED_STAGING_RES_SIZE_LIMIT + 1
\* The address of a staging allocation: no hw_res is mapped there.
StagingAddr == Cardinality(HwResIds) + 1

Batches == 1..IRIS_BATCH_COUNT

\* Client buffer objects; the first is screen->workaround_bo.
WorkaroundBO == 1
ClientBOs == {1, 2}
FirstCmdBO == 3
\* The allocators are modelled up to renaming: each batch is handed the
\* lowest free identity of a range of its own.
CmdBOsOf(b) ==
    (FirstCmdBO + (b - 1) * MaxCmdBOs)..(FirstCmdBO + b * MaxCmdBOs - 1)
CmdBOs == UNION {CmdBOsOf(b) : b \in Batches}
SyncptsOf(b) == ((b - 1) * MaxSyncpts + 1)..(b * MaxSyncpts)
Syncpts == UNION {SyncptsOf(b) : b \in Batches}
CtxOf(b) == ((b - 1) * MaxCtx + 1)..(b * MaxCtx)
AllBOs == ClientBOs \cup CmdBOs

\* Sizes of the command-stream pieces the client records.
RecordSizes == {4}

\* bo->size with command buffers allocated without the reserved tail.
bo_size_NoReserve(bo) ==
    IF bo \in ClientBOs THEN 4096 * (2 ^ bo) ELSE BATCH_SZ

\* bo->size
bo_size(bo) ==
    IF bo \in ClientBOs THEN 4096 * (2 ^ bo) ELSE BATCH_SZ + BATCH_RESERVED

\* bo->gem_handle and bo->gtt_offset are assigned by the allocator.
gem_handle(bo) == 100 + bo
gtt_offset(bo) == 65536 * bo

\* bo->kflags: every BO is pinned, command buffers are also captured.
bo_kflags(bo) ==
    IF bo \in ClientBOs THEN {"PINNED"} ELSE {"PINNED", "CAPTURE"}

\* What the client does in one run: both batches share one client BO, or one
\* batch alone uses every client BO; reset tells whether the client gave
\* iris_init_batch a device-reset callback (batch->reset->reset is not NULL).
Scenarios ==
    {[batches |-> Batches, bos |-> {bo}, reset |-> TRUE,
      syncpts |-> MaxSyncpts] : bo \in ClientBOs}
    \cup {[batches |-> {1}, bos |-> ClientBOs, reset |-> TRUE,
           syncpts |-> MaxSyncpts]}

\* Runs in which the kernel may report the device lost: one batch, with and
\* without a device-reset callback.
ErrScenarios ==
    {[batches |-> {1}, bos |-> ClientBOs, reset |-> r,
      syncpts |-> MaxSyncpts] : r \in BOOLEAN}

\* Runs long enough for a batch that waits for its sibling to be submitted
\* after the sibling: both batches share a client BO, and one syncpoint more
\* may be created.
SyncScenarios ==
    {[batches |-> Batches, bos |-> ClientBOs \ {WorkaroundBO},
      reset |-> TRUE, syncpts |-> MaxSyncpts + 1]}

\* Runs that end with the destruction of the context: both batches share a
\* client BO.
FreeScenarios ==
    {[batches |-> Batches, bos |-> ClientBOs \ {WorkaroundBO},
      reset |-> TRUE, syncpts |-> MaxSyncpts]}

\* Outcome of DRM_IOCTL_I915_GEM_EXECBUFFER2 and of iris_clone_hw_context,
\* what reading through a null syncpoint pointer yields: a fault (negative)
\* or some value taken for the handle (0 stands for whichever), and whether
\* the build compiles the assertions out (NDEBUG).
Rets == {"OK", "EIO", "ERR"}
Outcomes ==
    [ret : Rets, clone : BOOLEAN, ub : {0 - 1, 0}, ndebug : BOOLEAN]
InitOut == [ret |-> "OK", clone |-> TRUE, ub |-> 0 - 1, ndebug |-> TRUE]

\* The outcomes that differ for an operation that asked the kernel to
\* execute, or read through a null syncpoint, or evaluated an assertion that
\* is false, or did none of these.
OutcomesFor(asked, rets) ==
    {o \in [ret : IF "kernel" \in asked THEN rets ELSE {"OK"},
            clone : BOOLEAN,
            ub : IF "ub" \in asked THEN {0 - 1, 0} ELSE {0 - 1},
            ndebug : IF "assert" \in asked THEN BOOLEAN ELSE {TRUE}] :
        o.ret # "EIO" => o.clone}

VARIABLES
    batches,    \* struct iris_batch, one per engine
    bos,        \* struct iris_bo fields that change: refcount, index, idle
    ctxLive,    \* hardware contexts created and not destroyed
    status,     \* "running", "aborted" (abort or failed assert), "crashed",
                \* "undefined", "teardown" (the context is being destroyed)
    last,       \* the operation that produced this state and what it did
    scen,       \* the batches the client drives and the BOs it uses in this run
    virgl       \* struct virgl_resource, the virgl_context fields a map
                \* reads, and what the last call on the resource did

vars == <<batches, bos, ctxLive, status, last, scen, virgl>>

\* The program state as one value, threaded through the C functions.
World ==
    [batches |-> batches, bos |-> bos, ctxLive |-> ctxLive,
     status |-> status, events |-> <<>>, asked |-> {}, overflow |-> FALSE,
     reset |-> scen.reset, syncpts |-> scen.syncpts]

\* One observable step of an operation.
Ev(ev, b, h) ==
    [ev |-> ev, b |-> b, h |-> h, bos |-> <<>>, vl |-> <<>>,
     fences |-> <<>>, len |-> 0, ctx |-> 0, count |-> 0, start |-> 0,
     flags |-> {}, nfences |-> 0, primary |-> 0]

Emit(w, e) == [w EXCEPT !.events = Append(@, e)]

Running(w) == w.status = "running"

\* ------------------------------------------------------------ collaborators
iris_bo_reference(w, bo) ==
    [w EXCEPT !.bos[bo].refcount = @ + 1]

\* The fields of memory that holds no BO.
NoBO == [refcount |-> 0, index |-> NoIndex, idle |-> TRUE]

\* iris_bo_unreference: the BO is freed with its last reference.
iris_bo_unreference(w, bo) ==
    IF bo = NULL THEN w
    ELSE IF w.bos[bo].refcount = 1 THEN [w EXCEPT !.bos[bo] = NoBO]
    ELSE [w EXCEPT !.bos[bo].refcount = @ - 1]

Min(S) == CHOOSE x \in S : \A y \in S : x <= y

\* The BO iris_bo_alloc returns: memory that holds no live BO.
FreeBOs(w, b) ==
    IF Cardinality({bo \in CmdBOs : w.bos[bo].refcount > 0}) >= MaxCmdBOs
    THEN {}
    ELSE {bo \in CmdBOsOf(b) : w.bos[bo].refcount = 0}
MinOrNull(S) == IF S = {} THEN NULL ELSE Min(S)
NewBO(w, b) == MinOrNull(FreeBOs(w, b))

\* iris_bo_alloc: one reference, no index, idle.
AllocAs(w, bo) ==
    IF bo = NULL
    THEN [w EXCEPT !.overflow = TRUE]
    ELSE [w EXCEPT !.bos[bo] =
                       [refcount |-> 1, index |-> NoIndex, idle |-> TRUE]]
iris_bo_alloc(w, b) == AllocAs(w, NewBO(w, b))

\* iris_batch_bytes_used: map_next - map
iris_batch_bytes_used(batch) == batch.used

\* iris_batch_add_syncpt: append a fence descriptor and hold the syncpoint.
\* Reading the handle of a null syncpoint is undefined: the read faults
\* ("crashed") or yields some value; what the program does after such a read
\* is not defined either, so a run is not followed beyond it ("undefined").
iris_batch_add_syncpt(w, b, syncpt, flags, ub) ==
    IF syncpt = NULL /\ ub < 0
    THEN [w EXCEPT !.status = "crashed", !.asked = @ \cup {"ub"}]
    ELSE LET handle == IF syncpt = NULL THEN ub ELSE syncpt
         IN  Emit([w EXCEPT
                     !.asked = IF syncpt = NULL THEN @ \cup {"ub"} ELSE @,
                     !.status = IF syncpt = NULL THEN "undefined" ELSE @,
                     !.batches[b].exec_fences =
                         Append(@, [handle |-> handle, flags |-> flags]),
                     !.batches[b].syncpts = Append(@, syncpt)],
                  Ev(IF flags = "WAIT" THEN "wait" ELSE "signal", b, handle))

\* Syncpoints some batch holds a reference to.
RangeOf(seq) == {seq[i] : i \in 1..Len(seq)}
LiveSyncpts(w) ==
    UNION {RangeOf(w.batches[b].syncpts) \cup {w.batches[b].last_syncpt} :
           b \in Batches}

\* iris_create_syncpt: a syncpoint with a handle not handed out before.
\* The syncpoint a batch signals is the newest it created, and after a flush
\* last_syncpt is.
CreatedFrom(live) ==
    {h \in Syncpts : \E c \in Batches :
        h \in SyncptsOf(c) /\ \E g \in live \cap SyncptsOf(c) : h <= g}
FreeFrom(live, b, max) ==
    IF Cardinality(CreatedFrom(live)) >= max THEN {}
    ELSE {h \in SyncptsOf(b) : \A g \in live \cap SyncptsOf(b) : h > g}
FreeSyncpts(w, b) == FreeFrom(LiveSyncpts(w), b, w.syncpts)
iris_create_syncpt(w, b) == MinOrNull(FreeSyncpts(w, b))

\* iris_clone_hw_context and iris_create_hw_context: an id of no live context.
FreeCtx(w, b) == CtxOf(b) \ w.ctxLive
NewCtx(w, b) == IF FreeCtx(w, b) = {} THEN NULL ELSE Min(FreeCtx(w, b))

\* ------------------------------------------------------------- iris_batch.c
\* READ_ONCE(bo->index) into an unsigned
Unsigned(i) == IF i >= 0 THEN i ELSE (UINT_MAX + i) + 1

\* Slot of the first entry of exec_bos that is bo, by linear scan.
RECURSIVE ScanFrom(_, _, _)
ScanFrom(batch, bo, index) ==
    IF index >= batch.exec_count THEN NoIndex
    ELSE IF batch.exec_bos[index + 1] = bo THEN index
    ELSE ScanFrom(batch, bo, index + 1)

\* find_validation_entry trusting bo->index alone (lines 252-256 only).
find_validation_entry_NoScan(batch, bo_index, bo) ==
    IF Unsigned(bo_index) < batch.exec_count /\
       batch.exec_bos[Unsigned(bo_index) + 1] = bo
    THEN Unsigned(bo_index)
    ELSE NoIndex

\* find_validation_entry returning the cached slot without the comparison
\* of line 254.
find_validation_entry_TrustIndex(batch, bo_index, bo) ==
    IF Unsigned(bo_index) < batch.exec_count
    THEN Unsigned(bo_index)
    ELSE ScanFrom(batch, bo, 0)

\* find_validation_entry: the slot of bo's entry, NoIndex for NULL.
find_validation_entry(batch, bo_index, bo) ==
    LET index == Unsigned(bo_index)
    IN  IF index < batch.exec_count /\ batch.exec_bos[index + 1] = bo
        THEN index
        ELSE ScanFrom(batch, bo, 0)

\* iris_batch_references
iris_batch_references(batch, bo_index, bo) ==
    find_validation_entry(batch, bo_index, bo) # NoIndex

\* other_batches[k] of batch b, k = 0 .. IRIS_BATCH_COUNT - 2
other_batches(b, k) ==
    LET others == [i \in 1..(IRIS_BATCH_COUNT - 1) |->
                      IF i < b THEN i ELSE i + 1]
    IN  others[k + 1]

\* Lines 329-353 with .offset left out of the initializer of lines 342-347.
AppendEntry_NoOffset(w, b, bo, writable) ==
    LET batch == w.batches[b]
        size == IF batch.exec_count = batch.exec_array_size
                THEN batch.exec_array_size * 2
                ELSE batch.exec_array_size
        entry == [handle |-> gem_handle(bo), offset |-> 0,
                  flags |-> bo_kflags(bo) \cup
                            (IF writable THEN {"WRITE"} ELSE {})]
    IN  IF ~Running(w) \/ w.overflow THEN w
        ELSE [iris_bo_reference(w, bo) EXCEPT
                !.events = Append(@, Ev("append", b, bo)),
                !.batches[b].exec_array_size = size,
                !.batches[b].validation_list = Append(@, entry),
                !.bos[bo].index = batch.exec_count,
                !.batches[b].exec_bos = Append(@, bo),
                !.batches[b].aperture_space = @ + bo_size(bo),
                !.batches[b].exec_count = @ + 1]

\* Lines 329-353 without lines 332-340: the arrays are never reallocated.
AppendEntry_NoGrowth(w, b, bo, writable) ==
    LET batch == w.batches[b]
        entry == [handle |-> gem_handle(bo), offset |-> gtt_offset(bo),
                  flags |-> bo_kflags(bo) \cup
                            (IF writable THEN {"WRITE"} ELSE {})]
    IN  IF ~Running(w) \/ w.overflow THEN w
        ELSE [iris_bo_reference(w, bo) EXCEPT
                !.events = Append(@, Ev("append", b, bo)),
                !.batches[b].validation_list = Append(@, entry),
                !.bos[bo].index = batch.exec_count,
                !.batches[b].exec_bos = Append(@, bo),
                !.batches[b].aperture_space = @ + bo_size(bo),
                !.batches[b].exec_count = @ + 1]

\* Lines 329-353 of iris_use_pinned_bo: take a reference and append.  It is
\* not reached when the sibling loop ended the run.
AppendEntry(w, b, bo, writable) ==
    LET batch == w.batches[b]
        size == IF batch.exec_count = batch.exec_array_size
                THEN batch.exec_array_size * 2
                ELSE batch.exec_array_size
        entry == [handle |-> gem_handle(bo), offset |-> gtt_offset(bo),
                  flags |-> bo_kflags(bo) \cup
                            (IF writable THEN {"WRITE"} ELSE {})]
    IN  IF ~Running(w) \/ w.overflow THEN w
        ELSE [iris_bo_reference(w, bo) EXCEPT
                !.events = Append(@, Ev("append", b, bo)),
                !.batches[b].exec_array_size = size,
                !.batches[b].validation_list = Append(@, entry),
                !.bos[bo].index = batch.exec_count,
                !.batches[b].exec_bos = Append(@, bo),
                !.batches[b].aperture_space = @ + bo_size(bo),
                !.batches[b].exec_count = @ + 1]

RECURSIVE iris_use_pinned_bo(_, _, _, _, _)
RECURSIVE iris_batch_flush(_, _, _)
RECURSIVE SiblingLoop(_, _, _, _, _, _)

\* create_batch, bo being what iris_bo_alloc returns.
CreateWith(w, b, bo, out) ==
    IF bo = NULL THEN iris_bo_alloc(w, b)
    ELSE iris_use_pinned_bo(
             [iris_bo_alloc(w, b) EXCEPT !.batches[b].bo = bo,
                                         !.batches[b].used = 0],
             b, bo, FALSE, out)

\* create_batch
create_batch(w, b, out) == CreateWith(w, b, NewBO(w, b), out)

\* assert(e) with e false: the program aborts unless the build has NDEBUG.
assert_fails(w, b, out) ==
    Emit([w EXCEPT !.asked = @ \cup {"assert"},
                   !.status = IF out.ndebug THEN @ ELSE "aborted"],
         Ev("assert", b, 0))

\* Line 382 of iris_batch_reset: the new command buffer is at index 0.
ResetAssert(w, b, out) ==
    IF w.overflow \/ ~Running(w) THEN w
    ELSE IF w.bos[w.batches[b].bo].index # 0 THEN assert_fails(w, b, out)
    ELSE w

\* Lines 384-386 of iris_batch_reset: the syncpoint the batch will signal.
SignalSyncpt(w, b, syncpt, out) ==
    IF syncpt = NULL THEN [w EXCEPT !.overflow = TRUE]
    ELSE iris_batch_add_syncpt(w, b, syncpt, "SIGNAL", out.ub)

ResetSyncpt(w, b, out) ==
    IF w.overflow \/ ~Running(w) THEN w
    ELSE SignalSyncpt(w, b, iris_create_syncpt(w, b), out)

\* iris_batch_reset without the assignment of line 378.
iris_batch_reset_KeepDraw(w, b, out) ==
    ResetSyncpt(
        ResetAssert(
            create_batch(
                [iris_bo_unreference(w, w.batches[b].bo) EXCEPT
                    !.batches[b].primary_batch_size = 0,
                    !.batches[b].jump_target = 0],
                b, out),
            b, out),
        b, out)

\* iris_batch_reset; jump_target stands for the jump written at the end of
\* the primary chunk, which the new buffer does not have.
iris_batch_reset(w, b, out) ==
    ResetSyncpt(
        ResetAssert(
            create_batch(
                [iris_bo_unreference(w, w.batches[b].bo) EXCEPT
                    !.batches[b].primary_batch_size = 0,
                    !.batches[b].contains_draw = FALSE,
                    !.batches[b].jump_target = 0],
                b, out),
            b, out),
        b, out)

\* iris_finish_batch without the test of line 475.
iris_finish_batch_Always(w, b) ==
    [w EXCEPT !.batches[b].used = @ + 4,
              !.batches[b].primary_batch_size =
                  iris_batch_bytes_used(w.batches[b]) + 4]

\* iris_finish_batch
iris_finish_batch(w, b) ==
    LET batch == w.batches[b]
        w1 == [w EXCEPT !.batches[b].used = @ + 4]
    IN  IF batch.bo = batch.exec_bos[1]
        THEN [w1 EXCEPT !.batches[b].primary_batch_size =
                            iris_batch_bytes_used(w1.batches[b])]
        ELSE w1

\* ALIGN(value, 8)
ALIGN8(value) == ((value + 7) \div 8) * 8

\* The loop of submit_batch over exec_bos[i .. exec_count).
RECURSIVE ReleaseFrom(_, _, _)
ReleaseFrom(w, b, i) ==
    IF i >= w.batches[b].exec_count THEN w
    ELSE LET bo == w.batches[b].exec_bos[i + 1]
             w1 == [w EXCEPT !.bos[bo].idle = FALSE,
                             !.bos[bo].index = NoIndex]
         IN  ReleaseFrom(Emit(iris_bo_unreference(w1, bo),
                              Ev("unreference", b, bo)),
                         b, i + 1)

\* num_fences
num_fences(batch) == Len(batch.exec_fences)

\* Lines 555-573 with buffer_count one short: the last BO is left out.
execbuffer2_CountShort(batch, b, ret) ==
    [Ev("execbuf", b, ret) EXCEPT
       !.bos = batch.exec_bos,
       !.vl = batch.validation_list,
       !.count = batch.exec_count - 1,
       !.start = 0,
       !.len = ALIGN8(batch.primary_batch_size),
       !.primary = batch.primary_batch_size,
       !.flags = {batch.engine, "I915_EXEC_NO_RELOC",
                  "I915_EXEC_BATCH_FIRST", "I915_EXEC_HANDLE_LUT"} \cup
                 (IF num_fences(batch) # 0
                  THEN {"I915_EXEC_FENCE_ARRAY"} ELSE {}),
       !.ctx = batch.hw_ctx_id,
       !.nfences = num_fences(batch),
       !.fences = batch.exec_fences]

\* Lines 555-573 of submit_batch: the request handed to execbuffer2; the
\* pointers stand for the arrays they point to.
execbuffer2(batch, b, ret) ==
    [Ev("execbuf", b, ret) EXCEPT
       !.bos = batch.exec_bos,
       !.vl = batch.validation_list,
       !.count = batch.exec_count,
       !.start = 0,
       !.len = ALIGN8(batch.primary_batch_size),
       !.primary = batch.primary_batch_size,
       !.flags = {batch.engine, "I915_EXEC_NO_RELOC",
                  "I915_EXEC_BATCH_FIRST", "I915_EXEC_HANDLE_LUT"} \cup
                 (IF num_fences(batch) # 0
                  THEN {"I915_EXEC_FENCE_ARRAY"} ELSE {}),
       !.ctx = batch.hw_ctx_id,
       !.nfences = num_fences(batch),
       !.fences = batch.exec_fences]

\* submit_batch with the loop of lines 580-587 run only when the request
\* succeeded.
submit_batch_ReleaseOnSuccess(w, b, out) ==
    IF out.ret = "OK"
    THEN ReleaseFrom(Emit([w EXCEPT !.asked = @ \cup {"kernel"}],
                          execbuffer2(w.batches[b], b, out.ret)),
                     b, 0)
    ELSE Emit([w EXCEPT !.asked = @ \cup {"kernel"}],
              execbuffer2(w.batches[b], b, out.ret))

\* submit_batch: the execbuffer2 request, then the release of every BO.
submit_batch(w, b, out) ==
    ReleaseFrom(Emit([w EXCEPT !.asked = @ \cup {"kernel"}],
                     execbuffer2(w.batches[b], b, out.ret)),
                b, 0)

\* replace_hw_ctx without iris_destroy_hw_context (line 492).
replace_hw_ctx_KeepOld(w, b, out) ==
    IF ~out.clone THEN Emit(w, Ev("clone", b, NULL))
    ELSE IF NewCtx(w, b) = NULL THEN [w EXCEPT !.overflow = TRUE]
    ELSE [w EXCEPT !.ctxLive = @ \cup {NewCtx(w, b)},
                   !.batches[b].hw_ctx_id = NewCtx(w, b),
                   !.events = @ \o <<Ev("clone", b, NewCtx(w, b)),
                                     Ev("destroy_hw_context", b,
                                        w.batches[b].hw_ctx_id),
                                     Ev("lost_state", b, NewCtx(w, b))>>]

\* replace_hw_ctx with line 492 before line 488: the old context is
\* destroyed before the clone is known to exist.
replace_hw_ctx_DestroyFirst(w, b, out) ==
    IF ~out.clone
    THEN Emit([w EXCEPT !.ctxLive = @ \ {w.batches[b].hw_ctx_id}],
              Ev("clone", b, NULL))
    ELSE IF NewCtx(w, b) = NULL THEN [w EXCEPT !.overflow = TRUE]
    ELSE [w EXCEPT !.ctxLive = (@ \ {w.batches[b].hw_ctx_id})
                                   \cup {NewCtx(w, b)},
                   !.batches[b].hw_ctx_id = NewCtx(w, b),
                   !.events = @ \o <<Ev("destroy_hw_context", b,
                                        w.batches[b].hw_ctx_id),
                                     Ev("clone", b, NewCtx(w, b)),
                                     Ev("lost_state", b, NewCtx(w, b))>>]

\* replace_hw_ctx: clone the context; on success destroy the old one, take
\* the new one and tell the owning context that its state is lost.
replace_hw_ctx(w, b, out) ==
    IF ~out.clone THEN Emit(w, Ev("clone", b, NULL))
    ELSE IF NewCtx(w, b) = NULL THEN [w EXCEPT !.overflow = TRUE]
    ELSE [w EXCEPT !.ctxLive = (@ \ {w.batches[b].hw_ctx_id})
                                   \cup {NewCtx(w, b)},
                   !.batches[b].hw_ctx_id = NewCtx(w, b),
                   !.events = @ \o <<Ev("clone", b, NewCtx(w, b)),
                                     Ev("destroy_hw_context", b,
                                        w.batches[b].hw_ctx_id),
                                     Ev("lost_state", b, NewCtx(w, b))>>]

\* Lines 676-692 returning on every error, as on EIO with a new context.
FlushResult_ReturnOnError(w, b, out) ==
    IF w.overflow \/ ~Running(w) \/ out.ret = "OK" THEN w
    ELSE IF out.ret = "EIO" /\ out.clone
    THEN IF w.reset
         THEN Emit(replace_hw_ctx(w, b, out),
                   Ev("reset_cb", b, "PIPE_GUILTY_CONTEXT_RESET"))
         ELSE replace_hw_ctx(w, b, out)
    ELSE IF out.ret = "EIO"
    THEN [replace_hw_ctx(w, b, out) EXCEPT !.status = "aborted"]
    ELSE w

\* struct drm_i915_reset_stats after DRM_IOCTL_I915_GET_RESET_STATS: the
\* counts the kernel reports, or the zeroes of the initializer when the
\* ioctl failed.
reset_stats(ctx, ok, active, pending) ==
    [ctx_id |-> ctx,
     batch_active |-> IF ok THEN active ELSE 0,
     batch_pending |-> IF ok THEN pending ELSE 0]

\* Lines 510-521 with the two tests in the other order.
reset_status_PendingFirst(stats) ==
    IF stats.batch_pending # 0 THEN "PIPE_INNOCENT_CONTEXT_RESET"
    ELSE IF stats.batch_active # 0 THEN "PIPE_GUILTY_CONTEXT_RESET"
    ELSE "PIPE_NO_RESET"

\* Lines 510-521 of iris_batch_check_for_reset: the status.
reset_status(stats) ==
    IF stats.batch_active # 0 THEN "PIPE_GUILTY_CONTEXT_RESET"
    ELSE IF stats.batch_pending # 0 THEN "PIPE_INNOCENT_CONTEXT_RESET"
    ELSE "PIPE_NO_RESET"

\* Lines 523-532: replace the context on a reset; the result of
\* replace_hw_ctx is not looked at.
ReplaceOnReset(w, b, reset, out) ==
    Emit(IF reset # "PIPE_NO_RESET" THEN replace_hw_ctx(w, b, out) ELSE w,
         Ev("reset_status", b, reset))

\* iris_batch_check_for_reset
iris_batch_check_for_reset(w, b, stats, out) ==
    ReplaceOnReset(Emit(w, Ev("reset_stats", b, stats)),
                   b, reset_status(stats), out)

\* _iris_batch_flush after iris_batch_reset: the result of the submission.
FlushResult(w, b, out) ==
    IF w.overflow \/ ~Running(w) \/ out.ret = "OK" THEN w
    ELSE IF out.ret = "EIO" /\ out.clone
    THEN IF w.reset
         THEN Emit(replace_hw_ctx(w, b, out),
                   Ev("reset_cb", b, "PIPE_GUILTY_CONTEXT_RESET"))
         ELSE replace_hw_ctx(w, b, out)
    ELSE IF out.ret = "EIO"
    THEN [replace_hw_ctx(w, b, out) EXCEPT !.status = "aborted"]
    ELSE [w EXCEPT !.status = "aborted"]

\* Lines 650-669 without the assignment of line 651.
FlushCleanup_KeepAperture(w, b, out) ==
    FlushResult(
        iris_batch_reset(
            [w EXCEPT !.batches[b].exec_count = 0,
                      !.batches[b].exec_bos = <<>>,
                      !.batches[b].validation_list = <<>>,
                      !.batches[b].last_syncpt = w.batches[b].syncpts[1],
                      !.batches[b].syncpts = <<>>,
                      !.batches[b].exec_fences = <<>>],
            b, out),
        b, out)

\* Lines 650-669 without the assignment of line 650: the entries stay.
FlushCleanup_KeepCount(w, b, out) ==
    FlushResult(
        iris_batch_reset(
            [w EXCEPT !.batches[b].aperture_space = 0,
                      !.batches[b].last_syncpt = w.batches[b].syncpts[1],
                      !.batches[b].syncpts = <<>>,
                      !.batches[b].exec_fences = <<>>],
            b, out),
        b, out)

\* Lines 650-669 without line 661: the fence descriptors stay.
FlushCleanup_KeepFences(w, b, out) ==
    FlushResult(
        iris_batch_reset(
            [w EXCEPT !.batches[b].exec_count = 0,
                      !.batches[b].exec_bos = <<>>,
                      !.batches[b].validation_list = <<>>,
                      !.batches[b].aperture_space = 0,
                      !.batches[b].last_syncpt = w.batches[b].syncpts[1],
                      !.batches[b].syncpts = <<>>],
            b, out),
        b, out)

\* Lines 650-669 with the newest syncpoint of the list promoted instead of
\* the first.
FlushCleanup_PromoteNewest(w, b, out) ==
    FlushResult(
        iris_batch_reset(
            [w EXCEPT !.batches[b].exec_count = 0,
                      !.batches[b].exec_bos = <<>>,
                      !.batches[b].validation_list = <<>>,
                      !.batches[b].aperture_space = 0,
                      !.batches[b].last_syncpt =
                          w.batches[b].syncpts[Len(w.batches[b].syncpts)],
                      !.batches[b].syncpts = <<>>,
                      !.batches[b].exec_fences = <<>>],
            b, out),
        b, out)

\* Lines 650-692 with the outcome of the submission handled before the
\* batch is reset.
FlushCleanup_ResultFirst(w, b, out) ==
    iris_batch_reset(
        FlushResult(
            [w EXCEPT !.events =
                          Append(@, Ev("promote", b, w.batches[b].syncpts[1])),
                      !.batches[b].exec_count = 0,
                      !.batches[b].exec_bos = <<>>,
                      !.batches[b].validation_list = <<>>,
                      !.batches[b].aperture_space = 0,
                      !.batches[b].last_syncpt = w.batches[b].syncpts[1],
                      !.batches[b].syncpts = <<>>,
                      !.batches[b].exec_fences = <<>>],
            b, out),
        b, out)

\* _iris_batch_flush after submit_batch: clear the lists, keep the signalling
\* syncpoint as last_syncpt, start over.
FlushCleanup(w, b, out) ==
    FlushResult(
        iris_batch_reset(
            [w EXCEPT !.events =
                          Append(@, Ev("promote", b, w.batches[b].syncpts[1])),
                      !.batches[b].exec_count = 0,
                      !.batches[b].exec_bos = <<>>,
                      !.batches[b].validation_list = <<>>,
                      !.batches[b].aperture_space = 0,
                      !.batches[b].last_syncpt = w.batches[b].syncpts[1],
                      !.batches[b].syncpts = <<>>,
                      !.batches[b].exec_fences = <<>>],
            b, out),
        b, out)

\* _iris_batch_flush without the test of lines 617-618.
iris_batch_flush_NoEmptyCheck(w, b, out) ==
    FlushCleanup(
        submit_batch(
            iris_finish_batch(
                Emit(w, Ev("flush", b, iris_batch_bytes_used(w.batches[b]))),
                b),
            b, out),
        b, out)

\* _iris_batch_flush
iris_batch_flush(w, b, out) ==
    IF iris_batch_bytes_used(w.batches[b]) = 0
    THEN Emit(w, Ev("flush", b, 0))
    ELSE FlushCleanup(
             submit_batch(
                 iris_finish_batch(
                     Emit(w, Ev("flush", b,
                                iris_batch_bytes_used(w.batches[b]))),
                     b),
                 b, out),
             b, out)

\* The test of lines 320-321 taken as true for every sibling entry.
NeedsSync_Always(other_flags, writable) == TRUE

\* The test of line 320 without its second operand.
NeedsSync_OtherWrites(other_flags, writable) == "WRITE" \in other_flags

\* The test of iris_use_pinned_bo on a sibling's entry: either side writes.
NeedsSync(other_flags, writable) == "WRITE" \in other_flags \/ writable

\* Lines 306-321: the sibling has an entry for bo and one side writes.
SiblingConflicts(w, o, bo, writable) ==
    LET other_entry ==
            find_validation_entry(w.batches[o], w.bos[bo].index, bo)
    IN  other_entry # NoIndex /\
        NeedsSync(w.batches[o].validation_list[other_entry + 1].flags,
                  writable)

\* Line 323, after the sibling was flushed: wait for its last syncpoint.
WaitForSibling(w, b, o, out) ==
    IF ~Running(w) \/ w.overflow THEN w
    ELSE iris_batch_add_syncpt(w, b, w.batches[o].last_syncpt, "WAIT",
                               out.ub)

\* Lines 322-324 without line 323: the sibling is flushed, no wait recorded.
SyncWithSibling_NoWait(w, b, o, out) == iris_batch_flush(w, o, out)

\* Lines 322-324 with the sibling flushed a second time.
SyncWithSibling_Twice(w, b, o, out) ==
    WaitForSibling(iris_batch_flush(iris_batch_flush(w, o, out), o, out),
                   b, o, out)

\* Lines 322-324: flush the sibling, then wait for it.
SyncWithSibling(w, b, o, out) ==
    WaitForSibling(iris_batch_flush(w, o, out), b, o, out)

\* The loop of iris_use_pinned_bo over other_batches[k ..].
SiblingLoop(w, b, bo, writable, k, out) ==
    IF k >= IRIS_BATCH_COUNT - 1 \/ ~Running(w) \/ w.overflow THEN w
    ELSE SiblingLoop(
             IF SiblingConflicts(w, other_batches(b, k), bo, writable)
             THEN SyncWithSibling(w, b, other_batches(b, k), out)
             ELSE w,
             b, bo, writable, k + 1, out)

\* Lines 284-285: the workaround BO is never treated as written.
RequestedWritable(bo, writable) == writable

EffectiveWritable(bo, writable) ==
    IF bo = WorkaroundBO THEN FALSE ELSE writable

\* Lines 290-296 taking a reference for the repeated use as well.
MarkExisting_Reference(w, b, existing_entry, writable) ==
    IF writable
    THEN [iris_bo_reference(w, w.batches[b].exec_bos[existing_entry + 1])
          EXCEPT !.batches[b].validation_list[existing_entry + 1].flags =
                     @ \cup {"WRITE"}]
    ELSE iris_bo_reference(w, w.batches[b].exec_bos[existing_entry + 1])

\* Lines 290-296 with the flag assigned instead of or-ed.
MarkExisting_Assign(w, b, existing_entry, writable) ==
    [w EXCEPT !.batches[b].validation_list[existing_entry + 1].flags =
                  (@ \ {"WRITE"}) \cup (IF writable THEN {"WRITE"} ELSE {})]

\* Lines 290-296 followed by the accounting of line 351.
MarkExisting_Recount(w, b, existing_entry, writable) ==
    [w EXCEPT !.batches[b].validation_list[existing_entry + 1].flags =
                  @ \cup (IF writable THEN {"WRITE"} ELSE {}),
              !.batches[b].aperture_space =
                  @ + bo_size(w.batches[b].exec_bos[existing_entry + 1])]

\* Lines 290-296: the BO is in the list already; it becomes written when
\* this use writes it.
MarkExisting(w, b, existing_entry, writable) ==
    IF writable
    THEN [w EXCEPT !.batches[b].validation_list[existing_entry + 1].flags =
                       @ \cup {"WRITE"}]
    ELSE w

\* iris_use_pinned_bo
iris_use_pinned_bo(w, b, bo, writable_in, out) ==
    LET batch == w.batches[b]
        writable == EffectiveWritable(bo, writable_in)
        existing_entry == find_validation_entry(batch, w.bos[bo].index, bo)
    IN  IF existing_entry # NoIndex
        THEN MarkExisting(
                 Emit(w, [Ev("existing", b, existing_entry) EXCEPT
                            !.flags = batch.validation_list
                                          [existing_entry + 1].flags]),
                 b, existing_entry, writable)
        ELSE AppendEntry(IF bo # batch.bo
                         THEN SiblingLoop(w, b, bo, writable, 0, out)
                         ELSE w,
                         b, bo, writable)

\* Lines 454-458 of iris_chain_to_new_batch: the jump into the new chunk.
ChainJump(w, b) ==
    IF w.overflow THEN w
    ELSE Emit([w EXCEPT !.batches[b].jump_target =
                            gtt_offset(w.batches[b].bo)],
              Ev("chain", b, w.batches[b].bo))

\* Lines 444-458 without line 450: the batch keeps its reference to the
\* chunk it leaves.
ChainBody_KeepReference(w, b, out) ==
    IF ~Running(w) THEN w
    ELSE ChainJump(
             create_batch(
                 [w EXCEPT !.batches[b].used = @ + 12,
                           !.batches[b].primary_batch_size =
                               iris_batch_bytes_used(w.batches[b]) + 12],
                 b, out),
             b)

\* Lines 444-458 with line 451 before line 447: the size is taken before
\* the jump is counted.
ChainBody_SizeBeforeJump(w, b, out) ==
    IF ~Running(w) THEN w
    ELSE ChainJump(
             create_batch(
                 [iris_bo_unreference([w EXCEPT !.batches[b].used = @ + 12],
                                      w.batches[b].bo)
                  EXCEPT !.batches[b].primary_batch_size =
                             iris_batch_bytes_used(w.batches[b])],
                 b, out),
             b)

\* Lines 444-458 of iris_chain_to_new_batch, after its assertion.
ChainBody(w, b, out) ==
    IF ~Running(w) THEN w
    ELSE ChainJump(
             create_batch(
                 [iris_bo_unreference([w EXCEPT !.batches[b].used = @ + 12],
                                      w.batches[b].bo)
                  EXCEPT !.batches[b].primary_batch_size =
                             iris_batch_bytes_used(w.batches[b]) + 12],
                 b, out),
             b)

\* iris_chain_to_new_batch with the assertion of line 442 on the last slot
\* of exec_bos instead of the first.
iris_chain_to_new_batch_LastSlot(w, b, out) ==
    ChainBody(IF w.batches[b].bo #
                     w.batches[b].exec_bos[w.batches[b].exec_count]
              THEN assert_fails(w, b, out)
              ELSE w,
              b, out)

\* iris_chain_to_new_batch
iris_chain_to_new_batch(w, b, out) ==
    ChainBody(IF w.batches[b].bo # w.batches[b].exec_bos[1]
              THEN assert_fails(w, b, out)
              ELSE w,
              b, out)

\* iris_batch_maybe_flush without the first operand of the test of line 432.
iris_batch_maybe_flush_NoChainTest(w, b, estimate, out) ==
    IF iris_batch_bytes_used(w.batches[b]) + estimate >= BATCH_SZ
    THEN iris_batch_flush(w, b, out)
    ELSE w

\* iris_batch_maybe_flush
iris_batch_maybe_flush(w, b, estimate, out) ==
    LET batch == w.batches[b]
    IN  IF batch.bo # batch.exec_bos[1] \/
           iris_batch_bytes_used(batch) + estimate >= BATCH_SZ
        THEN iris_batch_flush(w, b, out)
        ELSE w

\* iris_get_command_space: map_next += bytes
Advance(w, b, bytes) ==
    IF ~Running(w) \/ w.overflow THEN w
    ELSE [w EXCEPT !.batches[b].used = @ + bytes]

\* iris_get_command_space: chain when the piece does not fit, then advance.
iris_get_command_space(w, b, bytes, out) ==
    Advance(IF iris_batch_bytes_used(w.batches[b]) + bytes >= BATCH_SZ
            THEN iris_chain_to_new_batch(w, b, out)
            ELSE w,
            b, bytes)

\* iris_destroy_hw_context
iris_destroy_hw_context(w, ctx) == [w EXCEPT !.ctxLive = @ \ {ctx}]

\* Lines 397-399 of iris_batch_free: the loop over exec_bos[i .. exec_count).
RECURSIVE UnreferenceFrom(_, _, _)
UnreferenceFrom(w, b, i) ==
    IF i >= w.batches[b].exec_count THEN w
    ELSE UnreferenceFrom(
             Emit(iris_bo_unreference(w, w.batches[b].exec_bos[i + 1]),
                  Ev("unreference", b, w.batches[b].exec_bos[i + 1])),
             b, i + 1)

\* Lines 400-403: the arrays and the fence descriptors are freed.
FreeArrays(w, b) ==
    [w EXCEPT !.batches[b].exec_bos = <<>>,
              !.batches[b].validation_list = <<>>,
              !.batches[b].exec_fences = <<>>]

\* Lines 405-409: iris_syncpt_reference(screen, s, NULL) for each syncpoint
\* of the list, which is then freed, and for last_syncpt.
ReleaseSyncpts(w, b) ==
    [w EXCEPT
       !.events = @ \o [i \in 1..Len(w.batches[b].syncpts) |->
                           Ev("syncpt_unreference", b, w.batches[b].syncpts[i])]
                    \o <<Ev("syncpt_unreference", b,
                            w.batches[b].last_syncpt)>>,
       !.batches[b].syncpts = <<>>,
       !.batches[b].last_syncpt = NULL]

\* Lines 411-414 without line 411: the command buffer is forgotten while
\* the batch's reference to it is kept.
FreeBO_KeepReference(w, b) ==
    [w EXCEPT !.batches[b].bo = NULL, !.batches[b].used = 0]

\* Lines 411-414: the batch's own reference to its command buffer; map and
\* map_next are NULL afterwards.
FreeBO(w, b) ==
    [Emit(iris_bo_unreference(w, w.batches[b].bo),
          Ev("unreference", b, w.batches[b].bo))
     EXCEPT !.batches[b].bo = NULL, !.batches[b].used = 0]

\* Line 416
FreeContext(w, b) ==
    Emit(iris_destroy_hw_context(w, w.batches[b].hw_ctx_id),
         Ev("destroy_hw_context", b, w.batches[b].hw_ctx_id))

\* iris_batch_free
iris_batch_free(w, b) ==
    FreeContext(
        FreeBO(ReleaseSyncpts(FreeArrays(UnreferenceFrom(w, b, 0), b), b), b),
        b)

\* ------------------------------------------------------- virgl_resource.c
\* One virgl resource and the context that maps it.  Offsets and sizes are
\* counted in units of VIRGL_MAP_BUFFER_ALIGNMENT bytes, so a staging
\* allocation never needs an alignment offset.
PIPE_BUFFER == "PIPE_BUFFER"
PIPE_TEXTURE_2D == "PIPE_TEXTURE_2D"

PIPE_TRANSFER_WRITE == "WRITE"
PIPE_TRANSFER_MAP_DIRECTLY == "MAP_DIRECTLY"
PIPE_TRANSFER_DISCARD_RANGE == "DISCARD_RANGE"
PIPE_TRANSFER_DONTBLOCK == "DONTBLOCK"
PIPE_TRANSFER_UNSYNCHRONIZED == "UNSYNCHRONIZED"
PIPE_TRANSFER_DISCARD_WHOLE_RESOURCE == "DISCARD_WHOLE_RESOURCE"
\* A usage is the set of the PIPE_TRANSFER_* bits that are set in it.
TransferFlags ==
    {PIPE_TRANSFER_WRITE, PIPE_TRANSFER_MAP_DIRECTLY,
     PIPE_TRANSFER_DISCARD_RANGE, PIPE_TRANSFER_DONTBLOCK,
     PIPE_TRANSFER_UNSYNCHRONIZED, PIPE_TRANSFER_DISCARD_WHOLE_RESOURCE}
Discards == {PIPE_TRANSFER_DISCARD_RANGE, PIPE_TRANSFER_DISCARD_WHOLE_RESOURCE}

VIRGL_TRANSFER_MAP_ERROR == "MAP_ERROR"
VIRGL_TRANSFER_MAP_HW_RES == "MAP_HW_RES"
VIRGL_TRANSFER_MAP_STAGING == "MAP_STAGING"
VIRGL_TRANSFER_MAP_REALLOC == "MAP_REALLOC"

\* The boxes a transfer may name: x and width along the first axis, one
\* unit at a time.
Boxes == {[x |-> x, width |-> 1] : x \in 0..(VBufSize - 1)}

Min2(x, y) == IF x < y THEN x ELSE y
Max2(x, y) == IF x > y THEN x ELSE y

\* util_range: the interval [start, end); the empty range has start > end.
EmptyRange == [start |-> UINT_MAX, end |-> 0]
util_range_add(range, start, end) ==
    [start |-> Min2(start, range.start), end |-> Max2(end, range.end)]
util_ranges_intersect(range, start, end) ==
    Max2(start, range.start) < Min2(end, range.end)

\* One step of a transfer that the winsys or the context sees.
VEv(ev, res) == [ev |-> ev, res |-> res]
VEmit(v, ev) == [v EXCEPT !.events = Append(@, VEv(ev, v.hw_res))]

\* What the caller of the last call got back, before any call.
NoCall ==
    [op |-> "create", usage |-> {}, box |-> [x |-> 0, width |-> 1],
     events |-> <<>>, map_type |-> VIRGL_TRANSFER_MAP_HW_RES, ret |-> NULL,
     transfer |-> FALSE]

\* virgl_resource_create: every level is clean, a buffer has no valid range.
virgl_resource_create(target, debug_xfer, can_rebind, staging) ==
    [target |-> target, debug_xfer |-> debug_xfer, can_rebind |-> can_rebind,
     supports_staging |-> staging, clean_mask |-> 1,
     valid_buffer_range |-> EmptyRange, hw_res |-> 1, referenced |-> FALSE,
     busy |-> FALSE, queue |-> {}, queued_staging_res_size |-> 0,
     overflow |-> FALSE, op |-> NoCall.op, usage |-> NoCall.usage,
     box |-> NoCall.box, events |-> NoCall.events,
     map_type |-> NoCall.map_type, ret |-> NoCall.ret,
     transfer |-> NoCall.transfer]

\* The resource of the runs that only drive the batches: never mapped.
VirglIdle == virgl_resource_create(PIPE_BUFFER, FALSE, TRUE, TRUE)

\* vws->res_is_referenced(vws, vctx->cbuf, res->hw_res)
res_is_referenced(v) == v.referenced
\* vws->resource_is_busy(vws, res->hw_res)
resource_is_busy(v) == v.busy
\* virgl_transfer_queue_is_queued: a queued write overlaps the box.
virgl_transfer_queue_is_queued(v, xfer) ==
    \E q \in v.queue :
        Max2(q.x, xfer.box.x) < Min2(q.x + q.width, xfer.box.x + xfer.box.width)
\* vctx->base.flush: the command buffer and the queued transfers go to the
\* host, which then works on what they name; the staging memory is released.
ctx_flush(v) ==
    VEmit([v EXCEPT !.busy = @ \/ v.referenced \/ v.queue # {},
                    !.referenced = FALSE, !.queue = {},
                    !.queued_staging_res_size = 0],
          "flush")
\* vws->transfer_get: the host starts copying the box to the guest.
transfer_get(v) == VEmit([v EXCEPT !.busy = TRUE], "transfer_get")
\* vws->resource_wait: returns when the host is done with the resource.
resource_wait(v) == VEmit([v EXCEPT !.busy = FALSE], "resource_wait")

virgl_res_needs_flush(v, xfer) ==
    IF PIPE_TRANSFER_UNSYNCHRONIZED \in xfer.usage THEN FALSE
    ELSE IF ~res_is_referenced(v) THEN FALSE
    ELSE TRUE

virgl_res_needs_readback(v, usage) ==
    IF usage \cap Discards # {} THEN FALSE
    ELSE IF v.clean_mask = 1 THEN FALSE
    ELSE TRUE

\* The locals flush, readback, wait and map_type of
\* virgl_resource_transfer_prepare after their initialisation.
PrepareLocals(v, xfer) ==
    [flush |-> virgl_res_needs_flush(v, xfer),
     readback |-> virgl_res_needs_readback(v, xfer.usage),
     wait |-> PIPE_TRANSFER_UNSYNCHRONIZED \notin xfer.usage,
     map_type |-> VIRGL_TRANSFER_MAP_HW_RES]

\* A buffer range that was never written needs no synchronisation.
SkipInvalidRange(v, xfer, d) ==
    IF /\ v.target = PIPE_BUFFER
       /\ ~util_ranges_intersect(v.valid_buffer_range, xfer.box.x,
                                 xfer.box.x + xfer.box.width)
       /\ ~v.debug_xfer
    THEN [d EXCEPT !.flush = FALSE, !.readback = FALSE, !.wait = FALSE]
    ELSE d

\* virgl_can_rebind_resource
virgl_can_rebind_resource(v) == v.can_rebind

\* A discarding map avoids the wait by reallocating or by a staging buffer.
AvoidWait(v, xfer, d) ==
    IF d.wait /\ xfer.usage \cap Discards # {} /\ ~v.debug_xfer
    THEN LET can_realloc ==
                 /\ PIPE_TRANSFER_DISCARD_WHOLE_RESOURCE \in xfer.usage
                 /\ virgl_can_rebind_resource(v)
             can_staging ==
                 /\ PIPE_TRANSFER_DISCARD_WHOLE_RESOURCE \notin xfer.usage
                 /\ v.supports_staging
         IN  IF can_realloc \/ can_staging
             THEN IF d.flush \/ resource_is_busy(v)
                  THEN [d EXCEPT
                          !.map_type = IF can_realloc
                                       THEN VIRGL_TRANSFER_MAP_REALLOC
                                       ELSE VIRGL_TRANSFER_MAP_STAGING,
                          !.wait = FALSE,
                          !.flush = v.queued_staging_res_size >
                                        VIRGL_QUEUED_STAGING_RES_SIZE_LIMIT]
                  ELSE [d EXCEPT !.wait = FALSE]
             ELSE d
    ELSE d

\* A readback that follows the queued writes but is waited for only when
\* the usage asks for synchronisation.
ReadbackNeedsWait_UsageDecides(v, xfer, d) ==
    IF d.readback
    THEN [d EXCEPT !.flush = @ \/ virgl_transfer_queue_is_queued(v, xfer)]
    ELSE d

\* A readback is waited for, and follows the queued writes to its region.
ReadbackNeedsWait(v, xfer, d) ==
    IF d.readback
    THEN [d EXCEPT !.wait = TRUE,
                   !.flush = @ \/ virgl_transfer_queue_is_queued(v, xfer)]
    ELSE d

\* flush, readback, wait and map_type when the context is about to be flushed.
PrepareDecision(v, xfer) ==
    ReadbackNeedsWait(
        v, xfer,
        AvoidWait(v, xfer, SkipInvalidRange(v, xfer, PrepareLocals(v, xfer))))

PrepareFlush(v, d) == IF d.flush THEN ctx_flush(v) ELSE v

PrepareGet(v, d) == IF d.readback THEN transfer_get(v) ELSE v

PrepareWait(v, d) == IF d.wait THEN resource_wait(v) ELSE v

\* An end of the preparation that blocks whatever the usage says.
PrepareFinish_Blocking(v, xfer, d) ==
    [PrepareWait(PrepareGet(v, d), d) EXCEPT !.map_type = d.map_type]

\* The end of virgl_resource_transfer_prepare, once the context is flushed.
PrepareFinish(v, xfer, d) ==
    IF /\ PIPE_TRANSFER_DONTBLOCK \in xfer.usage
       /\ d.readback \/ (d.wait /\ resource_is_busy(v))
    THEN [v EXCEPT !.map_type = VIRGL_TRANSFER_MAP_ERROR]
    ELSE [PrepareWait(PrepareGet(v, d), d) EXCEPT !.map_type = d.map_type]

PrepareWith(v, xfer, d) == PrepareFinish(PrepareFlush(v, d), xfer, d)

\* virgl_resource_transfer_prepare: the map type is left in v.map_type.
virgl_resource_transfer_prepare(v, xfer) ==
    IF PIPE_TRANSFER_MAP_DIRECTLY \in xfer.usage
    THEN [v EXCEPT !.map_type = VIRGL_TRANSFER_MAP_ERROR]
    ELSE PrepareWith(v, xfer, PrepareDecision(v, xfer))

\* virgl_resource_dirty, level 0
virgl_resource_dirty(v) == [v EXCEPT !.clean_mask = 0]

\* What the host may answer to the requests of one call: it grants them,
\* refuses the first, or grants a reallocation and refuses to map it.
HostOK == "OK"
HostFails == "FAILS"
HostMapFails == "MAP_FAILS"
HostAnswers(usage) ==
    IF PIPE_TRANSFER_DISCARD_WHOLE_RESOURCE \in usage
    THEN {HostOK, HostFails, HostMapFails}
    ELSE {HostOK, HostFails}

\* vctx->queued_staging_res_size += size
QueueStaging(v, size) ==
    [v EXCEPT !.queued_staging_res_size = @ + size,
              !.overflow = v.queued_staging_res_size + size > MaxStaging]

\* vws->resource_create: a host resource other than the one in use.
NewHwRes(v) == CHOOSE h \in HwResIds : h # v.hw_res

\* virgl_resource_realloc: ret is the new hw_res, or NULL.
virgl_resource_realloc(v, host) ==
    IF host = HostFails THEN [v EXCEPT !.ret = NULL]
    ELSE VEmit(QueueStaging([v EXCEPT !.hw_res = NewHwRes(v), !.busy = FALSE,
                                      !.referenced = FALSE,
                                      !.valid_buffer_range = EmptyRange,
                                      !.ret = NewHwRes(v)],
                            VBufSize),
               "rebind")

\* vws->resource_map: ret is the address, or NULL.
resource_map(v, host) ==
    [v EXCEPT !.ret = IF host = HostOK THEN v.hw_res ELSE NULL]

\* virgl_staging_map: ret is the address in the staging buffer, or NULL.
virgl_staging_map(v, xfer, host) ==
    IF host = HostFails THEN [v EXCEPT !.ret = NULL]
    ELSE [QueueStaging(virgl_resource_dirty(v), xfer.box.width)
             EXCEPT !.ret = StagingAddr]

\* The switch on the map type in virgl_resource_transfer_map.
MapByType(v, xfer, host) ==
    IF v.map_type = VIRGL_TRANSFER_MAP_REALLOC
    THEN IF virgl_resource_realloc(v, host).ret = NULL
         THEN [v EXCEPT !.ret = NULL]
         ELSE resource_map(virgl_resource_realloc(v, host), host)
    ELSE IF v.map_type = VIRGL_TRANSFER_MAP_HW_RES THEN resource_map(v, host)
    ELSE IF v.map_type = VIRGL_TRANSFER_MAP_STAGING
    THEN virgl_staging_map(v, xfer, host)
    ELSE [v EXCEPT !.ret = NULL]

\* util_range_set_empty of a written-over clean buffer.
DiscardValidRange(v, xfer) ==
    IF /\ v.map_type = VIRGL_TRANSFER_MAP_HW_RES
       /\ PIPE_TRANSFER_DISCARD_WHOLE_RESOURCE \in xfer.usage
       /\ v.clean_mask = 1
    THEN [v EXCEPT !.valid_buffer_range = EmptyRange]
    ELSE v

\* util_range_add of a written box.
AddValidRange(v, xfer) ==
    IF PIPE_TRANSFER_WRITE \in xfer.usage
    THEN [v EXCEPT !.valid_buffer_range =
                       util_range_add(@, xfer.box.x,
                                      xfer.box.x + xfer.box.width)]
    ELSE v

\* virgl_resource_destroy_transfer
virgl_resource_destroy_transfer(v) ==
    VEmit([v EXCEPT !.transfer = FALSE], "destroy_transfer")

\* The end of virgl_resource_transfer_map, once map_addr is known.
MapFinish(v, xfer) ==
    IF v.ret = NULL THEN virgl_resource_destroy_transfer(v)
    ELSE IF v.target = PIPE_BUFFER
    THEN AddValidRange(DiscardValidRange(v, xfer), xfer)
    ELSE v

\* virgl_resource_create_transfer
virgl_resource_create_transfer(v, xfer) ==
    VEmit([v EXCEPT !.op = "transfer_map", !.usage = xfer.usage,
                    !.box = xfer.box, !.events = <<>>, !.ret = NULL,
                    !.map_type = VIRGL_TRANSFER_MAP_HW_RES,
                    !.transfer = TRUE],
          "create_transfer")

virgl_resource_transfer_map(v, xfer, host) ==
    MapFinish(
        MapByType(
            virgl_resource_transfer_prepare(
                virgl_resource_create_transfer(v, xfer), xfer),
            xfer, host),
        xfer)

\* ------------------------------------------------------------------- Init
\* Fields of a zeroed struct iris_batch after the assignments of
\* iris_init_batch that precede its call of iris_batch_reset.
ZeroBatch(ctx, engine) ==
    [bo |-> NULL, used |-> 0, exec_count |-> 0, exec_array_size |-> ExecArrayInit,
     exec_bos |-> <<>>, validation_list |-> <<>>, aperture_space |-> 0,
     primary_batch_size |-> 0, contains_draw |-> FALSE, syncpts |-> <<>>,
     exec_fences |-> <<>>, last_syncpt |-> NULL, hw_ctx_id |-> ctx,
     jump_target |-> 0, engine |-> engine]

\* The engine argument of iris_init_batch for batch b: one of
\* I915_EXEC_RENDER, I915_EXEC_BLT, ...
EngineOf(b) == IF b = 1 THEN "I915_EXEC_RENDER" ELSE "I915_EXEC_BLT"

\* iris_init_batch for each batch of the context, in order.
RECURSIVE iris_init_batch(_, _)
iris_init_batch(w, b) ==
    IF b > IRIS_BATCH_COUNT THEN w
    ELSE iris_init_batch(
             iris_batch_reset(
                 [w EXCEPT !.batches[b] = ZeroBatch(NewCtx(w, b), EngineOf(b)),
                           !.ctxLive = @ \cup {NewCtx(w, b)}],
                 b, InitOut),
             b + 1)

World0 ==
    [batches |-> [b \in Batches |-> ZeroBatch(0, "I915_EXEC_DEFAULT")],
     bos |-> [bo \in AllBOs |->
                 IF bo \in ClientBOs
                 THEN [refcount |-> 1, index |-> NoIndex, idle |-> TRUE]
                 ELSE NoBO],
     ctxLive |-> {}, status |-> "running", events |-> <<>>, asked |-> {},
     overflow |-> FALSE, reset |-> FALSE, syncpts |-> MaxSyncpts]

\* What is recorded of an operation: its arguments and its observable
\* steps, with the contents of the kernel requests when detail is set.
Brief(e) == Ev(e.ev, e.b, e.h)
Op(op, b, bo, writable, n, w, detail) ==
    [op |-> op, b |-> b, bo |-> bo, writable |-> writable, n |-> n,
     events |-> IF detail THEN w.events
                ELSE [i \in 1..Len(w.events) |-> Brief(w.events[i])]]

\* The state after an operation that took the program to w.
Install(op, b, bo, writable, n, w, detail) ==
    /\ ~w.overflow
    /\ scen' = scen
    /\ virgl' = virgl
    /\ batches' = w.batches
    /\ bos' = w.bos
    /\ ctxLive' = w.ctxLive
    /\ status' = w.status
    /\ last' = Op(op, b, bo, writable, n, w, detail)

InitFrom(w, scenarios) ==
    /\ batches = w.batches
    /\ bos = w.bos
    /\ ctxLive = w.ctxLive
    /\ status = w.status
    /\ last = Op("init", 0, 0, FALSE, 0, World0, FALSE)
    /\ scen \in scenarios
    /\ virgl = VirglIdle

Init == InitFrom(iris_init_batch(World0, 1), Scenarios)

\* ---------------------------------------------------------------- actions
\* Each action is one call of the client into the batch code; rets are the
\* results the kernel may give to an execbuffer2 request during the call.

\* iris_use_pinned_bo on a client BO.
UseBOFrom(first, b, bo, writable, rets, detail) ==
    \E out \in OutcomesFor(first.asked, rets) :
        Install("use_bo", b, bo, writable, 0,
                IF out = InitOut THEN first
                ELSE iris_use_pinned_bo(World, b, bo, writable, out),
                detail)

UseBO(b, bo, writable, rets, detail) ==
    /\ status = "running"
    /\ UseBOFrom(iris_use_pinned_bo(World, b, bo, writable, InitOut),
           b, bo, writable, rets, detail)

\* iris_get_command_space: the client records a piece of the command stream.
RecordFrom(first, b, bytes, rets, detail) ==
    \E out \in OutcomesFor(first.asked, rets) :
        Install("record", b, 0, FALSE, bytes,
                IF out = InitOut THEN first
                ELSE iris_get_command_space(World, b, bytes, out),
                detail)

Record(b, bytes, rets, detail) ==
    /\ status = "running"
    /\ RecordFrom(iris_get_command_space(World, b, bytes, InitOut),
           b, bytes, rets, detail)

\* iris_chain_to_new_batch
ChainFrom(first, b, rets, detail) ==
    \E out \in OutcomesFor(first.asked, rets) :
        Install("chain", b, 0, FALSE, 0,
                IF out = InitOut THEN first
                ELSE iris_chain_to_new_batch(World, b, out),
                detail)

Chain(b, rets, detail) ==
    /\ status = "running"
    /\ ChainFrom(iris_chain_to_new_batch(World, b, InitOut),
           b, rets, detail)

\* iris_batch_flush
FlushFrom(first, b, rets, detail) ==
    \E out \in OutcomesFor(first.asked, rets) :
        Install("flush", b, 0, FALSE, 0,
                IF out = InitOut THEN first
                ELSE iris_batch_flush(World, b, out),
                detail)

Flush(b, rets, detail) ==
    /\ status = "running"
    /\ FlushFrom(iris_batch_flush(World, b, InitOut),
           b, rets, detail)

\* iris_batch_maybe_flush
MaybeFlushFrom(first, b, estimate, rets, detail) ==
    \E out \in OutcomesFor(first.asked, rets) :
        Install("maybe_flush", b, 0, FALSE, estimate,
                IF out = InitOut THEN first
                ELSE iris_batch_maybe_flush(World, b, estimate, out),
                detail)

MaybeFlush(b, estimate, rets, detail) ==
    /\ status = "running"
    /\ MaybeFlushFrom(iris_batch_maybe_flush(World, b, estimate, InitOut),
           b, estimate, rets, detail)

\* A draw call of the client: it records commands and sets contains_draw.
MarkDraw(w, b) ==
    IF ~Running(w) \/ w.overflow THEN w
    ELSE [w EXCEPT !.batches[b].contains_draw = TRUE]

DrawFrom(first, b, bytes, rets, detail) ==
    \E out \in OutcomesFor(first.asked, rets) :
        Install("draw", b, 0, FALSE, bytes,
                IF out = InitOut THEN first
                ELSE MarkDraw(iris_get_command_space(World, b, bytes, out), b),
                detail)

Draw(b, bytes, rets, detail) ==
    /\ status = "running"
    /\ DrawFrom(MarkDraw(iris_get_command_space(World, b, bytes, InitOut), b),
           b, bytes, rets, detail)

\* iris_batch_check_for_reset; the kernel reports counts or the ioctl fails,
\* and iris_clone_hw_context gives a context or fails.
CheckForReset(b, ok, active, pending, clone, detail) ==
    /\ status = "running"
    /\ Install("check_for_reset", b, 0, FALSE, 0,
               iris_batch_check_for_reset(
                   World, b,
                   reset_stats(batches[b].hw_ctx_id, ok, active, pending),
                   [InitOut EXCEPT !.clone = clone]),
               detail)

\* ---------------------------------------------------------- specifications
\* Spec: the client registers BOs, records commands (chaining when a chunk
\* is full) and flushes; the kernel accepts a submission or rejects it with
\* an error other than EIO.
SpecRets == {"OK", "ERR"}

Next ==
    \/ \E b \in scen.batches, bo \in scen.bos, wr \in BOOLEAN :
          UseBO(b, bo, wr, SpecRets, FALSE)
    \/ \E b \in scen.batches, n \in RecordSizes :
          Record(b, n, SpecRets, FALSE)
    \/ \E b \in scen.batches : Flush(b, SpecRets, FALSE)
    \/ \E b \in scen.batches, n \in RecordSizes :
          MaybeFlush(b, n, SpecRets, FALSE)

Spec == Init /\ [][Next]_vars

\* SpecChain: as Spec, and the client also chains on its own and draws; the
\* contents of the kernel requests are recorded.
NextChain ==
    \/ \E b \in scen.batches, bo \in scen.bos, wr \in BOOLEAN :
          UseBO(b, bo, wr, SpecRets, TRUE)
    \/ \E b \in scen.batches, n \in RecordSizes :
          Record(b, n, SpecRets, TRUE)
    \/ \E b \in scen.batches, n \in RecordSizes :
          Draw(b, n, SpecRets, TRUE)
    \/ \E b \in scen.batches : Chain(b, SpecRets, TRUE)
    \/ \E b \in scen.batches : Flush(b, SpecRets, TRUE)
    \/ \E b \in scen.batches, n \in RecordSizes :
          MaybeFlush(b, n, SpecRets, TRUE)

InitChain == Init /\ scen.batches = {1}

SpecChain == InitChain /\ [][NextChain]_vars

\* SpecErr: one batch is driven, and the kernel may also reject a submission
\* with EIO; cloning the hardware context then succeeds or fails.
NextErr ==
    \/ \E b \in scen.batches, bo \in scen.bos, wr \in BOOLEAN :
          UseBO(b, bo, wr, Rets, TRUE)
    \/ \E b \in scen.batches, n \in RecordSizes :
          Record(b, n, Rets, TRUE)
    \/ \E b \in scen.batches : Flush(b, Rets, TRUE)

InitErr == InitFrom(iris_init_batch(World0, 1), ErrScenarios)

SpecErr == InitErr /\ [][NextErr]_vars

\* SpecSync: as Spec without maybe_flush, in runs of SyncScenarios; the
\* contents of the kernel requests are recorded.
NextSync ==
    \/ \E b \in scen.batches, bo \in scen.bos, wr \in BOOLEAN :
          UseBO(b, bo, wr, SpecRets, TRUE)
    \/ \E b \in scen.batches, n \in RecordSizes :
          Record(b, n, SpecRets, TRUE)
    \/ \E b \in scen.batches : Flush(b, SpecRets, TRUE)

InitSync == InitFrom(iris_init_batch(World0, 1), SyncScenarios)

SpecSync == InitSync /\ [][NextSync]_vars

\* iris_batch_free, called for each batch when the context is destroyed:
\* from the first call on the client makes no other call.
Free(b, detail) ==
    /\ status \in {"running", "teardown"}
    /\ batches[b].bo # NULL
    /\ Install("free", b, 0, FALSE, 0,
               [iris_batch_free(World, b) EXCEPT !.status = "teardown"],
               detail)

\* SpecFree: both batches register a shared client BO, the render batch also
\* records, chains and flushes, and the context may be destroyed at any
\* point, its batches freed in any order.
NextFree ==
    \/ \E b \in scen.batches, bo \in scen.bos, wr \in BOOLEAN :
          UseBO(b, bo, wr, SpecRets, FALSE)
    \/ \E n \in RecordSizes : Record(1, n, SpecRets, FALSE)
    \/ Chain(1, SpecRets, FALSE)
    \/ Flush(1, SpecRets, FALSE)
    \/ \E b \in Batches : Free(b, FALSE)

InitFree == InitFrom(iris_init_batch(World0, 1), FreeScenarios)

SpecFree == InitFree /\ [][NextFree]_vars

\* Sizes of the pieces recorded in SpecTail: a piece may fill a chunk.
TailSizes == RecordSizes \cup {BATCH_SZ}

\* SpecTail: one batch registers BOs, records pieces of up to BATCH_SZ
\* bytes, chains and flushes.
NextTail ==
    \/ \E b \in scen.batches, bo \in scen.bos, wr \in BOOLEAN :
          UseBO(b, bo, wr, SpecRets, TRUE)
    \/ \E b \in scen.batches, n \in TailSizes :
          Record(b, n, SpecRets, TRUE)
    \/ \E b \in scen.batches : Chain(b, SpecRets, TRUE)
    \/ \E b \in scen.batches : Flush(b, SpecRets, TRUE)

SpecTail == InitChain /\ [][NextTail]_vars

\* Counts the kernel may report in drm_i915_reset_stats.
StatValues == {0, 1, 2}

\* SpecReset: one batch is driven, and the client also asks whether the GPU
\* was reset.
NextReset ==
    \/ \E b \in scen.batches, bo \in scen.bos, wr \in BOOLEAN :
          UseBO(b, bo, wr, SpecRets, TRUE)
    \/ \E b \in scen.batches, n \in RecordSizes :
          Record(b, n, SpecRets, TRUE)
    \/ \E b \in scen.batches : Flush(b, SpecRets, TRUE)
    \/ \E b \in scen.batches, ok \in BOOLEAN, active \in StatValues,
          pending \in StatValues, clone \in BOOLEAN :
          CheckForReset(b, ok, active, pending, clone, TRUE)

SpecReset == InitChain /\ [][NextReset]_vars

\* SpecCtx: one batch is driven; submissions may fail with EIO, the client
\* asks whether the GPU was reset (the kernel reports the batch active in a
\* reset or no reset), and the context may be destroyed at any point.
NextCtx ==
    \/ \E b \in scen.batches, bo \in scen.bos, wr \in BOOLEAN :
          UseBO(b, bo, wr, Rets, TRUE)
    \/ \E b \in scen.batches, n \in RecordSizes :
          Record(b, n, Rets, TRUE)
    \/ \E b \in scen.batches : Flush(b, Rets, TRUE)
    \/ \E b \in scen.batches, active \in BOOLEAN, clone \in BOOLEAN :
          CheckForReset(b, TRUE, IF active THEN 1 ELSE 0, 0, clone, TRUE)
    \/ \E b \in Batches : Free(b, TRUE)

SpecCtx == InitErr /\ [][NextCtx]_vars

\* SpecVirgl: one resource of a virgl context is drawn to, written through
\* queued transfers, flushed and mapped; the host retires its work and may
\* refuse an allocation or a mapping.  The batches of the other driver stay
\* as they were initialised.
VirglConfigs ==
    {virgl_resource_create(PIPE_BUFFER, FALSE, TRUE, TRUE),
     virgl_resource_create(PIPE_BUFFER, TRUE, TRUE, TRUE),
     virgl_resource_create(PIPE_TEXTURE_2D, FALSE, FALSE, FALSE)}

\* The usages a caller passes: a map that discards is a map that writes and
\* says how much it discards; MAP_DIRECTLY is refused whatever comes with it.
MapUsages ==
    {u \in SUBSET (TransferFlags \ {PIPE_TRANSFER_MAP_DIRECTLY}) :
        /\ u \cap Discards # {} => PIPE_TRANSFER_WRITE \in u
        /\ ~(Discards \subseteq u)}
        \cup {{PIPE_TRANSFER_MAP_DIRECTLY}}

InitVirgl ==
    /\ batches = iris_init_batch(World0, 1).batches
    /\ bos = iris_init_batch(World0, 1).bos
    /\ ctxLive = iris_init_batch(World0, 1).ctxLive
    /\ status = iris_init_batch(World0, 1).status
    /\ last = Op("init", 0, 0, FALSE, 0, World0, FALSE)
    /\ scen = CHOOSE s \in Scenarios : TRUE
    /\ virgl \in VirglConfigs

VirglInstall(v) ==
    /\ ~v.overflow
    /\ virgl' = v
    /\ UNCHANGED <<batches, bos, ctxLive, status, last, scen>>

\* The state a call of the client other than a map starts from.
VirglCall(op) ==
    [virgl EXCEPT !.op = op, !.usage = NoCall.usage, !.box = NoCall.box,
                  !.events = NoCall.events, !.map_type = NoCall.map_type,
                  !.ret = NoCall.ret, !.transfer = NoCall.transfer]

TransferMap(usage, box, host) ==
    VirglInstall(
        virgl_resource_transfer_map(virgl, [usage |-> usage, box |-> box],
                                    host))

\* A draw that reads the resource: the command buffer references it.
VirglDraw == VirglInstall([VirglCall("draw") EXCEPT !.referenced = TRUE])

\* A draw that writes the box: the guest copy of the resource is stale.
VirglDrawTo(box) ==
    VirglInstall(
        [virgl_resource_dirty(VirglCall("draw_to")) EXCEPT
            !.referenced = TRUE,
            !.valid_buffer_range =
                IF virgl.target = PIPE_BUFFER
                THEN util_range_add(@, box.x, box.x + box.width)
                ELSE @])

\* The unmap of a written transfer queues the write of its box.
QueueWrite(box) ==
    /\ Cardinality(virgl.queue \cup {box}) <= MaxQueued
    /\ VirglInstall([VirglCall("queue_write") EXCEPT !.queue = @ \cup {box}])

VirglFlush == VirglInstall(ctx_flush(VirglCall("flush")))

\* The host finishes what it was doing with the resource.
Retire ==
    /\ virgl.busy
    /\ VirglInstall([VirglCall("retire") EXCEPT !.busy = FALSE])

NextVirgl ==
    \/ \E usage \in MapUsages, box \in Boxes :
          \E host \in HostAnswers(usage) : TransferMap(usage, box, host)
    \/ VirglDraw
    \/ \E box \in Boxes : VirglDrawTo(box)
    \/ \E box \in Boxes : QueueWrite(box)
    \/ VirglFlush
    \/ Retire

SpecVirgl == InitVirgl /\ [][NextVirgl]_vars

\* ------------------------------------------------------------ observations
\* Slots of exec_bos[0 .. exec_count) that hold bo (counted from 1).
SlotsOf(batch, bo) == {i \in 1..batch.exec_count : batch.exec_bos[i] = bo}

\* Batch b holds a validation entry for bo that is not yet submitted.
Tracks(b, bo) == SlotsOf(batches[b], bo) # {}

\* That entry carries EXEC_OBJECT_WRITE.
WritesBO(b, bo) ==
    \E i \in SlotsOf(batches[b], bo) :
        "WRITE" \in batches[b].validation_list[i].flags

\* The last operation took step ev on batch b.
Did(ev, b) ==
    \E i \in 1..Len(last.events) :
        last.events[i].ev = ev /\ last.events[i].b = b

\* The last operation took step ev on batch b with value h.
DidWith(ev, b, h) ==
    \E i \in 1..Len(last.events) :
        last.events[i].ev = ev /\ last.events[i].b = b /\ last.events[i].h = h

\* Some step ev on batch b came before some step ev2 on batch b2.
DidBefore(ev, b, ev2, b2) ==
    \E i, j \in 1..Len(last.events) :
        /\ i < j
        /\ last.events[i].ev = ev /\ last.events[i].b = b
        /\ last.events[j].ev = ev2 /\ last.events[j].b = b2

\* The last operation was the client's use_bo(b, bo, writable).
LastUse(b, bo, writable) ==
    last.op = "use_bo" /\ last.b = b /\ last.bo = bo /\ last.writable = writable

RECURSIVE SumSizes(_)
SumSizes(seq) ==
    IF seq = <<>> THEN 0 ELSE bo_size(Head(seq)) + SumSizes(Tail(seq))

\* A WAIT on syncpt was appended to batch a's fence list and syncpoints.
WaitAppended(a, syncpt) ==
    /\ batches'[a].exec_fences =
           Append(batches[a].exec_fences,
                  [handle |-> syncpt, flags |-> "WAIT"])
    /\ batches'[a].syncpts = Append(batches[a].syncpts, syncpt)

\* This step is a use_bo(a, x, wr) that newly adds x to batch a.
NewlyAdds(a, x, wr) ==
    LastUse(a, x, wr)' /\ ~Tracks(a, x) /\ Tracks(a, x)'

\* The hazard matrix for one sibling s: flush-and-wait exactly on a conflict.
MatrixHolds(a, s, conflict) ==
    /\ conflict <=>
           (Did("flush", s)' /\ WaitAppended(a, batches'[s].last_syncpt))
    /\ ~conflict =>
           (~Did("flush", s)' /\
            batches'[a].exec_fences = batches[a].exec_fences)

\* The command stream of batch b has chained into a second buffer.
Chained(b) == batches[b].bo # batches[b].exec_bos[1]

\* The execbuffer2 requests of the last operation for batch b.
Execbufs(b) ==
    {last.events[i] : i \in {j \in 1..Len(last.events) :
                                last.events[j].ev = "execbuf" /\
                                last.events[j].b = b}}

\* The last operation was the client's call op on batch b.
LastOp(op, b) == last.op = op /\ last.b = b

\* Batch b holds commands the client recorded since its last reset: in the
\* current chunk, or in a first chunk that is longer than the jump of
\* iris_chain_to_new_batch.
HasCommands(b) ==
    \/ iris_batch_bytes_used(batches[b]) > 0
    \/ Chained(b) /\ batches[b].primary_batch_size > 12

\* Batch b has chained once: its list holds the first chunk and one more.
ChainedOnce(b) ==
    /\ Chained(b)
    /\ Cardinality(RangeOf(batches[b].exec_bos) \cap CmdBOs) = 2

\* Values bo->index may hold: none, or a slot some batch gave the BO.
CachedIndexValues == {NoIndex} \cup (0..(MaxCmdBOs + Cardinality(ClientBOs)))

\* The lookup of bo in batch b with bo->index = index answers as exec_bos does.
LookupAgrees(b, bo, index) ==
    /\ iris_batch_references(batches[b], index, bo) <=> Tracks(b, bo)
    /\ Tracks(b, bo) =>
           (find_validation_entry(batches[b], index, bo) + 1)
               \in SlotsOf(batches[b], bo)
    /\ ~Tracks(b, bo) =>
           find_validation_entry(batches[b], index, bo) = NoIndex

\* The step released what batch b tracked: every client BO of its list lost
\* one reference, is busy and has no cached index; the others are untouched.
ReleasedTracked(b) ==
    \A x \in ClientBOs :
        IF Tracks(b, x)
        THEN /\ bos'[x].refcount = bos[x].refcount - 1
             /\ ~bos'[x].idle
             /\ bos'[x].index = NoIndex
        ELSE bos'[x] = bos[x]

\* After the step batch b is fresh: one command buffer, allocated and
\* appended after the submission, alone in the list and in the footprint,
\* and every other command buffer of the batch is freed.
FreshAfter(b) ==
    /\ batches'[b].exec_count = 1
    /\ batches'[b].exec_bos = <<batches'[b].bo>>
    /\ Len(batches'[b].validation_list) = 1
    /\ batches'[b].aperture_space = bo_size(batches'[b].bo)
    /\ iris_batch_bytes_used(batches'[b]) = 0
    /\ batches'[b].primary_batch_size = 0
    /\ bos'[batches'[b].bo] = [refcount |-> 2, index |-> 0, idle |-> TRUE]
    /\ \A x \in CmdBOsOf(b) \ {batches'[b].bo} : bos'[x] = NoBO
    /\ DidBefore("execbuf", b, "append", b)'

\* The step promoted the fence batch b was armed to signal to last_syncpt
\* and armed the batch with one fence, created in the step.
FencesTurned(b) ==
    /\ batches'[b].last_syncpt = batches[b].syncpts[1]
    /\ batches[b].exec_fences[1] =
           [handle |-> batches[b].syncpts[1], flags |-> "SIGNAL"]
    /\ Len(batches'[b].syncpts) = 1
    /\ batches'[b].syncpts[1] \notin
           (RangeOf(batches[b].syncpts) \cup {batches[b].last_syncpt, NULL})
    /\ batches'[b].exec_fences =
           <<[handle |-> batches'[b].syncpts[1], flags |-> "SIGNAL"]>>
    /\ DidBefore("execbuf", b, "signal", b)'

\* Handles of the fences batch b waits for.
WaitedOn(b) ==
    {batches[b].exec_fences[i].handle :
         i \in {j \in 1..Len(batches[b].exec_fences) :
                    batches[b].exec_fences[j].flags = "WAIT"}}

\* How many times the last operation took step ev on batch b.
CountEv(ev, b) ==
    Cardinality({i \in 1..Len(last.events) :
                    last.events[i].ev = ev /\ last.events[i].b = b})

\* iris_clone_hw_context gave batch b a new context in the last operation.
Cloned(b) ==
    \E i \in 1..Len(last.events) :
        /\ last.events[i].ev = "clone" /\ last.events[i].b = b
        /\ last.events[i].h # NULL

\* The last step of the last operation.
LastEv == last.events[Len(last.events)]

\* The counts of the last iris_batch_check_for_reset on batch b, and what it
\* returned.
StatsSeen(b) ==
    {last.events[i].h : i \in {j \in 1..Len(last.events) :
                                  last.events[j].ev = "reset_stats" /\
                                  last.events[j].b = b}}

Returned(b, reset) == DidWith("reset_status", b, reset)

\* ------------------------------------------------------------------ claims
\* The references batch b holds on bo: one for each validation slot with bo
\* and one if bo is its command buffer; a freed batch holds none.
HeldBy(b, bo) ==
    IF batches[b].bo = NULL THEN 0
    ELSE Cardinality(SlotsOf(batches[b], bo))
         + (IF batches[b].bo = bo THEN 1 ELSE 0)

\* The references to bo the batches hold together.
RECURSIVE HeldUpTo(_, _)
HeldUpTo(b, bo) ==
    IF b = 0 THEN 0 ELSE HeldBy(b, bo) + HeldUpTo(b - 1, bo)

\* The reference of the owner of a BO: the client holds one on each of its
\* BOs; a command buffer has no owner but its batch.
OwnerRefs(bo) == IF bo \in ClientBOs THEN 1 ELSE 0

\* The fence lists of batch b are parallel: a SIGNAL descriptor for a
\* syncpoint of b first, then WAIT descriptors for syncpoints of siblings.
FenceShape(b) ==
    /\ Len(batches[b].exec_fences) = Len(batches[b].syncpts)
    /\ Len(batches[b].exec_fences) >= 1
    /\ batches[b].exec_fences[1].flags = "SIGNAL"
    /\ batches[b].syncpts[1] \in SyncptsOf(b)
    /\ \A i \in 1..Len(batches[b].exec_fences) :
           /\ batches[b].exec_fences[i].handle = batches[b].syncpts[i]
           /\ i > 1 => /\ batches[b].exec_fences[i].flags = "WAIT"
                        /\ batches[b].syncpts[i] \notin SyncptsOf(b)
                        /\ batches[b].syncpts[i] # NULL

\* The WAIT descriptors the last operation recorded for batch b, in order.
WaitsRecorded(b) ==
    LET IsWait(e) == e.ev = "wait" /\ e.b = b
        waits == SelectSeq(last.events, IsWait)
    IN  [i \in 1..Len(waits) |-> [handle |-> waits[i].h, flags |-> "WAIT"]]

\* The last operation took steps ev and ev2 on batch b, every ev before every
\* ev2.
AllBefore(ev, ev2, b) ==
    /\ Did(ev, b)
    /\ Did(ev2, b)
    /\ \A i, j \in 1..Len(last.events) :
           (/\ last.events[i].ev = ev /\ last.events[i].b = b
            /\ last.events[j].ev = ev2 /\ last.events[j].b = b) => i < j

\* C1 as stated: when use_bo(A, X, writable) newly adds X to A, each sibling
\* B is flushed and a WAIT on B's last_syncpt is appended to A's fence list
\* if and only if B has an entry for X and (that entry carries WRITE or
\* writable is true).
C1_AsStated ==
    [][\A a \in Batches, x \in ClientBOs, wr \in BOOLEAN :
          NewlyAdds(a, x, wr) =>
              \A s \in Batches \ {a} :
                  MatrixHolds(a, s,
                              Tracks(s, x) /\ (WritesBO(s, x) \/ wr))]_vars

\* C1 amended: when use_bo(A, X, writable) newly adds X to A, each sibling B
\* is flushed and a WAIT on B's last_syncpt is appended to A's fence list if
\* and only if B has an entry for X and (that entry carries WRITE, or
\* writable is true and X is not the workaround BO); otherwise B is not
\* flushed and no wait is added.
C1_HazardMatrix ==
    [][\A a \in Batches, x \in ClientBOs, wr \in BOOLEAN :
          NewlyAdds(a, x, wr) =>
              \A s \in Batches \ {a} :
                  MatrixHolds(a, s,
                              Tracks(s, x) /\
                              (WritesBO(s, x) \/
                               (wr /\ x # WorkaroundBO)))]_vars

\* A writing use_bo added the BO after flushing a sibling and waiting for it.
C1_Witness ==
    /\ status = "running"
    /\ last.op = "use_bo" /\ last.writable
    /\ DidWith("append", last.b, last.bo)
    /\ WritesBO(last.b, last.bo)
    /\ \E s \in Batches \ {last.b} :
          DidBefore("flush", s, "wait", last.b)

\* C2: if two sibling batches both hold a not yet submitted validation entry
\* for the same BO other than the workaround BO, neither entry carries WRITE.
C2_HazardFree ==
    \A a \in Batches, s \in Batches, x \in ClientBOs \ {WorkaroundBO} :
        (a # s /\ Tracks(a, x) /\ Tracks(s, x)) =>
            (~WritesBO(a, x) /\ ~WritesBO(s, x))

C4_SyncSubmits ==
    \A s \in Batches :
        (last.op = "use_bo" /\ status = "running" /\ s # last.b /\
         Did("flush", s)) =>
            /\ Did("execbuf", s)
            /\ ~Tracks(s, last.bo)
            /\ DidWith("wait", last.b, batches[s].last_syncpt)

\* C5: each BO appears in at most one slot of exec_bos[0 .. exec_count), and
\* the validation list has one entry per slot.
C5_Dedup ==
    \A b \in Batches :
        /\ batches[b].exec_count = Len(batches[b].exec_bos)
        /\ batches[b].exec_count = Len(batches[b].validation_list)
        /\ \A bo \in AllBOs : Cardinality(SlotsOf(batches[b], bo)) <= 1

\* A use_bo found the BO in the list already.
C5_Witness ==
    /\ last.op = "use_bo"
    /\ Did("existing", last.b)
    /\ Cardinality(SlotsOf(batches[last.b], last.bo)) = 1
    /\ batches[last.b].exec_count >= 2

\* C6: for a BO other than the workaround BO that a batch tracks, the entry
\* carries WRITE after a step exactly if it carried WRITE before or the step
\* is a use_bo of that BO on that batch with writable true: the flag is the
\* OR of the requests of the generation and is never cleared.
C6_WriteIsOr ==
    [][\A b \in Batches, x \in ClientBOs \ {WorkaroundBO} :
          Tracks(b, x)' =>
              (WritesBO(b, x)' <=>
                   (WritesBO(b, x) \/ LastUse(b, x, TRUE)'))]_vars

\* A read-only request found the entry written and left it so.
C6_Witness ==
    /\ last.op = "use_bo" /\ ~last.writable
    /\ last.bo # WorkaroundBO
    /\ Did("existing", last.b)
    /\ WritesBO(last.b, last.bo)

\* C7: no batch's validation entry for the workaround BO carries WRITE.
C7_WorkaroundReadOnly ==
    \A b \in Batches : ~WritesBO(b, WorkaroundBO)

\* use_bo was called on the workaround BO with writable true.
C7_Witness ==
    /\ LastUse(last.b, WorkaroundBO, TRUE)
    /\ Tracks(last.b, WorkaroundBO)
    /\ \E e \in {"append", "existing"} : Did(e, last.b)

\* C8: aperture_space is the sum of the sizes of the BOs registered in the
\* generation, each counted once.
C8_FootprintSum ==
    \A b \in Batches :
        batches[b].aperture_space = SumSizes(batches[b].exec_bos)

\* A repeated use_bo on a batch that tracks a client BO.
C8_Witness ==
    /\ last.op = "use_bo"
    /\ Did("existing", last.b)
    /\ Tracks(last.b, last.bo)
    /\ batches[last.b].aperture_space >= bo_size(last.bo) + bo_size(FirstCmdBO)

\* C9 as stated: after a flush/reset of a batch has completed, its
\* aperture_space is 0.
C9_AsStated ==
    \A b \in Batches :
        (status = "running" /\ Did("execbuf", b)) =>
            batches[b].aperture_space = 0

\* C9 amended: after a flush/reset of a batch has completed, its
\* aperture_space is the size of its new command buffer.
C9_FootprintReset ==
    \A b \in Batches :
        (status = "running" /\ Did("execbuf", b)) =>
            batches[b].aperture_space = bo_size(batches[b].bo)

\* A client's flush submitted a batch that tracked a client BO.
C9_Witness ==
    /\ status = "running"
    /\ last.op = "flush"
    /\ Did("execbuf", last.b)
    /\ \E bo \in ClientBOs : ~bos[bo].idle

\* C10 as stated: after flush of a batch that had recorded commands returns,
\* exec_count == 0.
C10_AsStated ==
    \A b \in Batches :
        (status = "running" /\ Did("execbuf", b)) =>
            batches[b].exec_count = 0

\* C10 amended: after flush of a batch that had recorded commands returns,
\* exec_count == 1: the one tracked BO is the new command buffer, at index 0.
C10_CountReset ==
    \A b \in Batches :
        (status = "running" /\ Did("execbuf", b)) =>
            /\ batches[b].exec_count = 1
            /\ batches[b].exec_bos = <<batches[b].bo>>
            /\ bos[batches[b].bo].index = 0

\* A flush of a batch with recorded commands returned, asked for by
\* maybe_flush or by a sibling's use_bo.
C10_Witness ==
    /\ status = "running"
    /\ last.op \in {"maybe_flush", "use_bo"}
    /\ \E b \in Batches : Did("execbuf", b) /\ Did("signal", b)

\* C11: between operations, exec_bos[0] of every batch is a command buffer of
\* the batch.  When the batch is not chained it is batch->bo, held by the
\* batch and by the list, with cached index 0; when chained it is the first
\* chunk, held by the list alone, and batch->bo is a newer chunk tracked at a
\* slot >= 1.  After a non-empty flush the batch is fresh: nothing recorded,
\* not chained, primary_batch_size 0, contains_draw false, and slot 0 holds a
\* command buffer allocated and appended after the submission.
C11_SlotInvariant ==
    status = "running" =>
        \A b \in Batches :
            /\ batches[b].exec_count >= 1
            /\ batches[b].exec_bos[1] \in CmdBOsOf(b)
            /\ batches[b].bo \in CmdBOsOf(b)
            /\ ~Chained(b) =>
                   /\ bos[batches[b].bo].refcount = 2
                   /\ bos[batches[b].bo].index = 0
            /\ Chained(b) =>
                   /\ bos[batches[b].exec_bos[1]].refcount = 1
                   /\ bos[batches[b].bo].refcount = 2
                   /\ \E i \in 2..batches[b].exec_count :
                          batches[b].exec_bos[i] = batches[b].bo
            /\ Did("execbuf", b) =>
                   /\ iris_batch_bytes_used(batches[b]) = 0
                   /\ ~Chained(b)
                   /\ batches[b].primary_batch_size = 0
                   /\ ~batches[b].contains_draw
                   /\ batches[b].exec_bos = <<batches[b].bo>>
                   /\ bos[batches[b].bo].idle
                   /\ DidBefore("execbuf", b, "append", b)
                   /\ DidWith("append", b, batches[b].bo)

\* A flush submitted a chained batch and returned with the batch fresh.
C11_Witness ==
    /\ status = "running"
    /\ last.op = "flush"
    /\ ~Chained(last.b)
    /\ \E e \in Execbufs(last.b) :
          /\ Len(e.bos) >= 2
          /\ e.bos[2] \in CmdBOsOf(last.b)
          /\ e.len > BATCH_SZ

\* C12: a flush called on a batch with no bytes recorded changes nothing:
\* last_syncpt, exec_count, the validation list, the fence lists, the command
\* BO, the footprint and hw_ctx_id of the batch, every other batch, the
\* reference count, idle flag and cached index of every BO and the hardware
\* contexts are as before, and no submission is made.
C12_EmptyFlushNoOp ==
    [][\A b \in Batches :
          (LastOp("flush", b)' /\ iris_batch_bytes_used(batches[b]) = 0) =>
              /\ batches' = batches
              /\ bos' = bos
              /\ ctxLive' = ctxLive
              /\ status' = status
              /\ last'.events = <<Ev("flush", b, 0)>>]_vars

\* An empty flush of a batch that was submitted before and tracks a client
\* BO of the new generation.
C12_Witness ==
    /\ last.op = "flush"
    /\ last.events = <<Ev("flush", last.b, 0)>>
    /\ iris_batch_bytes_used(batches[last.b]) = 0
    /\ batches[last.b].exec_count >= 2
    /\ batches[last.b].last_syncpt # NULL

\* C13: a flush called on a batch that holds commands recorded since its
\* last reset, in the first chunk or in the continuation, makes a kernel
\* submission; that includes a flush called right after chain_to_new_batch
\* with nothing recorded in the continuation yet.
C13_NoCancellation ==
    [][\A b \in Batches :
          (LastOp("flush", b)' /\ HasCommands(b)) => Did("execbuf", b)']_vars

\* C14: chain_to_new_batch on a batch that has not chained freezes the size
\* of the first chunk (the bytes recorded and the jump), appends the new
\* chunk to the list behind the first and points the jump at the new chunk's
\* GPU address; recording into the continuation changes neither; and the
\* flush that follows submits with batch_len the frozen size rounded up to 8,
\* whatever was recorded in the continuation, with the first chunk in slot 0
\* and the continuation in the submitted list.
C14_Chaining ==
    [][\A b \in Batches :
          /\ (LastOp("chain", b)' /\ ~Chained(b) /\ status' = "running") =>
                 /\ Did("chain", b)'
                 /\ batches'[b].primary_batch_size =
                        iris_batch_bytes_used(batches[b]) + 12
                 /\ batches'[b].bo # batches[b].bo
                 /\ batches'[b].exec_bos =
                        Append(batches[b].exec_bos, batches'[b].bo)
                 /\ batches'[b].jump_target = gtt_offset(batches'[b].bo)
                 /\ iris_batch_bytes_used(batches'[b]) = 0
          /\ (ChainedOnce(b) /\ last'.op \in {"record", "draw", "use_bo"}
                 /\ ~Did("chain", b)') =>
                 /\ batches'[b].primary_batch_size =
                        batches[b].primary_batch_size
                 /\ batches'[b].jump_target = batches[b].jump_target
                 /\ batches'[b].bo = batches[b].bo
          /\ (ChainedOnce(b) /\ LastOp("flush", b)'
                 /\ iris_batch_bytes_used(batches[b]) > 0) =>
                 /\ Cardinality(Execbufs(b)') = 1
                 /\ \A e \in Execbufs(b)' :
                        /\ e.len = ALIGN8(batches[b].primary_batch_size)
                        /\ e.bos = batches[b].exec_bos
                        /\ e.vl = batches[b].validation_list
                        /\ e.bos[1] # batches[b].bo
                        /\ \E i \in 2..Len(e.bos) :
                               /\ e.bos[i] = batches[b].bo
                               /\ e.vl[i].offset = batches[b].jump_target
                               /\ e.vl[i].handle = gem_handle(batches[b].bo)
                        /\ e.vl[1].handle = gem_handle(e.bos[1])]_vars

\* A flush submitted a first chunk of 4 recorded bytes and the jump, rounded
\* up to 16, with 4 bytes recorded in the continuation.
C14_Witness ==
    /\ last.op = "flush"
    /\ DidWith("flush", last.b, 4)
    /\ \E e \in Execbufs(last.b) :
          /\ e.h = "OK"
          /\ e.len = ALIGN8(4 + 12)
          /\ Len(e.bos) >= 2
          /\ {e.bos[1], e.bos[2]} \subseteq CmdBOsOf(last.b)
          /\ e.bos[1] # e.bos[2]

\* C15: chain_to_new_batch asserts batch->bo == exec_bos[0].  The assertion
\* fails exactly when the batch has chained already: a chain that follows a
\* chain of the same batch fails it, and in a build that checks assertions
\* the program aborts with the batch untouched; a chain that follows a
\* completed non-empty flush of the batch passes it and chains.
C15_SingleHop ==
    [][\A b \in Batches :
          LastOp("chain", b)' =>
              /\ Did("assert", b)' <=> Chained(b)
              /\ (Did("chain", b) /\ last.op = "chain") => Did("assert", b)'
              /\ Did("execbuf", b) =>
                     (~Did("assert", b)' /\ Did("chain", b)' /\ Chained(b)')
              /\ status' = "aborted" =>
                     (Did("assert", b)' /\ batches' = batches /\ bos' = bos)
              /\ ~Did("assert", b)' => status' = "running"]_vars

\* After a completed flush, a chain was followed by a second chain, which
\* failed the assertion and aborted.
C15_Witness ==
    /\ last.op = "chain"
    /\ Did("assert", last.b)
    /\ status = "aborted"
    /\ Chained(last.b)
    /\ batches[last.b].last_syncpt # NULL

\* C16: maybe_flush(batch, estimate) calls flush if and only if the batch
\* has chained or bytes_used + estimate >= BATCH_SZ; when it does not, the
\* batches, their lists and fences, all BOs and the hardware contexts are
\* unchanged.
C16_MaybeFlush ==
    [][\A b \in Batches :
          LastOp("maybe_flush", b)' =>
              /\ Did("flush", b)' <=>
                     (Chained(b) \/
                      iris_batch_bytes_used(batches[b]) + last'.n >= BATCH_SZ)
              /\ ~Did("flush", b)' =>
                     /\ batches' = batches
                     /\ bos' = bos
                     /\ ctxLive' = ctxLive
                     /\ status' = status
                     /\ last'.events = <<>>]_vars

\* maybe_flush called flush on a chained batch whose continuation had room
\* for the estimate.
C16_Witness ==
    /\ last.op = "maybe_flush"
    /\ status = "running"
    /\ Chained(last.b)
    /\ DidWith("flush", last.b, 0)
    /\ last.n < BATCH_SZ

\* C17: in every reachable state, for every batch and BO,
\* find_validation_entry / iris_batch_references report the BO as tracked if
\* and only if it is in exec_bos[0 .. exec_count) of that batch, and the
\* entry returned is the one of the BO's slot; this holds for the index the
\* BO caches and for any other value the cached index could have.
C17_Lookup ==
    \A b \in Batches, bo \in AllBOs :
        /\ bos[bo].index \in CachedIndexValues
        /\ \A index \in CachedIndexValues : LookupAgrees(b, bo, index)

\* Two batches track a client BO whose cached index, given by one of them,
\* names a slot of the other that holds a different BO.
C17_Witness ==
    \E bo \in ClientBOs, a \in Batches, b \in Batches :
        /\ a # b
        /\ Tracks(a, bo) /\ Tracks(b, bo)
        /\ (bos[bo].index + 1) \notin SlotsOf(batches[a], bo)
        /\ batches[a].exec_count > bos[bo].index
        /\ bos[bo].index >= 0

\* C18: a flush of a batch with recorded commands makes one kernel
\* submission, and whatever the kernel answers (success, EIO, another
\* error), when the flush returns or aborts the batch has dropped a reference
\* on every BO it tracked, marked each not idle and invalidated its cached
\* index, cleared the validation list and the footprint, promoted the
\* signalling fence to last_syncpt, released the generation's fences, and
\* started over with a new command buffer and a fresh signal fence.
C18_Cleanup ==
    [][\A b \in Batches :
          (LastOp("flush", b)' /\ iris_batch_bytes_used(batches[b]) > 0) =>
              /\ Cardinality(Execbufs(b)') = 1
              /\ \A e \in Execbufs(b)' :
                     /\ e.h \in Rets
                     /\ e.bos = batches[b].exec_bos
                     /\ e.h # "OK" /\ ~Did("lost_state", b)' =>
                            status' = "aborted"
              /\ status' \in {"running", "aborted"}
              /\ ReleasedTracked(b)
              /\ FreshAfter(b)
              /\ FencesTurned(b)]_vars

\* The kernel answered EIO to a batch that tracked a client BO, the context
\* could not be cloned, and the process aborts.
C18_Witness ==
    /\ last.op = "flush"
    /\ status = "aborted"
    /\ ~Did("lost_state", last.b)
    /\ \E e \in Execbufs(last.b) :
          /\ e.h = "EIO"
          /\ \E x \in ClientBOs \cap RangeOf(e.bos) : ~bos[x].idle

\* C19: a step that submits batch b leaves in last_syncpt the fence that
\* submission was armed to signal, the first of the generation's syncpoints
\* and none of the fences the batch waited for, and arms the new generation
\* with a different fence created in the step; a step that does not submit
\* batch b (use_bo, chaining, an empty flush, an operation of the sibling)
\* leaves b's last_syncpt as it was.
C19_LastSyncpt ==
    [][\A b \in Batches :
          /\ Did("execbuf", b)' =>
                 /\ FencesTurned(b)
                 /\ batches'[b].last_syncpt \notin WaitedOn(b)
                 /\ batches'[b].last_syncpt # batches'[b].syncpts[1]
                 /\ \A e \in Execbufs(b)' :
                        [handle |-> batches'[b].last_syncpt,
                         flags |-> "SIGNAL"] \in RangeOf(e.fences)
          /\ ~Did("execbuf", b)' =>
                 batches'[b].last_syncpt = batches[b].last_syncpt]_vars

\* A flush submitted a batch that waited for its sibling's last submission.
C19_Witness ==
    /\ last.op = "flush"
    /\ \E e \in Execbufs(last.b) :
          /\ Len(e.fences) >= 2
          /\ e.fences[1].flags = "SIGNAL"
          /\ e.fences[2].flags = "WAIT"
          /\ batches[last.b].last_syncpt = e.fences[1].handle
          /\ \E s \in Batches \ {last.b} :
                 batches[s].last_syncpt = e.fences[2].handle

\* C20: when the submission of batch b fails with EIO and the hardware
\* context is cloned, the flush returns with the program running and the
\* submission made once; hw_ctx_id is the new context, which is live, and the
\* old one is destroyed; the owning context is told once that its state is
\* lost; and the reset callback, if the client registered one, is called
\* exactly once, with the guilty status, and is not called otherwise.  When
\* the clone fails the process aborts with the context as it was.  When the
\* submission succeeds the context is not replaced, no clone is asked for
\* and the callback is not called.
C20_DeviceLoss ==
    [][\A b \in Batches : \A e \in Execbufs(b)' :
          /\ e.ctx = batches[b].hw_ctx_id
          /\ CountEv("execbuf", b)' = 1
          /\ (e.h = "EIO" /\ Cloned(b)') =>
                 /\ status' = "running"
                 /\ batches'[b].hw_ctx_id # batches[b].hw_ctx_id
                 /\ batches'[b].hw_ctx_id \in ctxLive'
                 /\ batches[b].hw_ctx_id \notin ctxLive'
                 /\ Cardinality(ctxLive') = Cardinality(ctxLive)
                 /\ CountEv("lost_state", b)' = 1
                 /\ \E c \in CtxOf(b) :
                        /\ c = batches'[b].hw_ctx_id
                        /\ DidWith("lost_state", b, c)'
                 /\ CountEv("reset_cb", b)' = IF scen.reset THEN 1 ELSE 0
                 /\ scen.reset =>
                        /\ DidWith("reset_cb", b,
                                    "PIPE_GUILTY_CONTEXT_RESET")'
                        /\ DidBefore("lost_state", b, "reset_cb", b)'
          /\ (e.h = "EIO" /\ ~Cloned(b)') =>
                 /\ status' = "aborted"
                 /\ CountEv("clone", b)' = 1
                 /\ batches'[b].hw_ctx_id = batches[b].hw_ctx_id
                 /\ ctxLive' = ctxLive
                 /\ ~Did("lost_state", b)' /\ ~Did("reset_cb", b)'
          /\ e.h # "EIO" =>
                 /\ status' = (IF e.h = "OK" THEN "running" ELSE "aborted")
                 /\ batches'[b].hw_ctx_id = batches[b].hw_ctx_id
                 /\ ctxLive' = ctxLive
                 /\ ~Did("clone", b)'
                 /\ ~Did("lost_state", b)' /\ ~Did("reset_cb", b)']_vars

\* A flush whose submission failed with EIO returned with a new hardware
\* context after calling the registered reset callback.
C20_Witness ==
    /\ last.op = "flush"
    /\ status = "running"
    /\ scen.reset
    /\ Cloned(last.b)
    /\ CountEv("reset_cb", last.b) = 1
    /\ \E e \in Execbufs(last.b) :
          /\ e.h = "EIO"
          /\ e.ctx # batches[last.b].hw_ctx_id
          /\ e.ctx \notin ctxLive

\* C21: a flush that submits batch b aborts the process exactly when the
\* kernel answered an error other than EIO, or answered EIO and the hardware
\* context could not be cloned.  When it aborts, the state is not reported
\* lost, the callback is not called, a use_bo that asked for the flush of a
\* sibling does not go on to add its BO, and the program takes no further
\* step.  A client flush that submits nothing returns.
C21_Fatal ==
    [][/\ \A b \in Batches : \A e \in Execbufs(b)' :
             /\ status' = "aborted" <=>
                    (e.h \notin {"OK", "EIO"} \/
                     (e.h = "EIO" /\ ~Cloned(b)'))
             /\ status' # "aborted" => status' = "running"
             /\ status' = "aborted" =>
                    /\ ~Did("lost_state", b)' /\ ~Did("reset_cb", b)'
                    /\ \A a \in Batches \ {b} :
                           ~DidBefore("execbuf", b, "append", a)'
       /\ \A b \in Batches :
             (LastOp("flush", b)' /\ ~Did("execbuf", b)') =>
                 status' = "running"
       /\ status = "running"]_vars

\* A flush aborted on an error other than EIO.
C21_Witness ==
    /\ last.op = "flush"
    /\ status = "aborted"
    /\ DidWith("execbuf", last.b, "ERR")
    /\ ~Did("clone", last.b)
    /\ LastEv.ev = "signal"

\* C22: iris_batch_check_for_reset returns guilty if the kernel reports a
\* non-zero batch_active for the batch's context, whatever batch_pending is;
\* innocent if batch_active is zero and batch_pending is not; no-reset if
\* both are zero; it returns exactly one of the three.
C22_Classification ==
    \A b \in Batches :
        last.op = "check_for_reset" /\ last.b = b =>
            /\ Cardinality(StatsSeen(b)) = 1
            /\ CountEv("reset_status", b) = 1
            /\ \A stats \in StatsSeen(b) :
                   /\ Returned(b, "PIPE_GUILTY_CONTEXT_RESET") <=>
                          stats.batch_active # 0
                   /\ Returned(b, "PIPE_INNOCENT_CONTEXT_RESET") <=>
                          (stats.batch_active = 0 /\ stats.batch_pending # 0)
                   /\ Returned(b, "PIPE_NO_RESET") <=>
                          (stats.batch_active = 0 /\ stats.batch_pending = 0)

\* The kernel reported both an active and a pending reset, and the result
\* was guilty.
C22_Witness ==
    /\ last.op = "check_for_reset"
    /\ Returned(last.b, "PIPE_GUILTY_CONTEXT_RESET")
    /\ \E stats \in StatsSeen(last.b) :
          stats.batch_active # 0 /\ stats.batch_pending # 0

\* C23: whenever iris_batch_check_for_reset returns guilty or innocent, on
\* return hw_ctx_id names a live hardware context cloned in the call,
\* different from the one queried, and the queried one is destroyed; when it
\* returns no-reset, hw_ctx_id and the contexts are unchanged.
C23_ResetReplaces ==
    [][\A b \in Batches :
          LastOp("check_for_reset", b)' =>
              /\ \A stats \in StatsSeen(b)' :
                     stats.ctx_id = batches[b].hw_ctx_id
              /\ ~Returned(b, "PIPE_NO_RESET")' =>
                     /\ Cloned(b)'
                     /\ batches'[b].hw_ctx_id # batches[b].hw_ctx_id
                     /\ batches'[b].hw_ctx_id \in ctxLive'
                     /\ batches[b].hw_ctx_id \notin ctxLive'
              /\ Returned(b, "PIPE_NO_RESET")' =>
                     /\ batches'[b].hw_ctx_id = batches[b].hw_ctx_id
                     /\ ctxLive' = ctxLive]_vars

\* C24: every execbuffer2 request a flush of batch b makes passes the
\* batch's validation list with buffer_count = exec_count (the entries of
\* every BO of the generation, the first command buffer in slot 0), start
\* offset 0, batch_len the size of the first chunk rounded up to a multiple
\* of 8, the batch's hw_ctx_id, flags with the batch's engine, NO_RELOC,
\* BATCH_FIRST and HANDLE_LUT, and, as the batch has fence descriptors,
\* FENCE_ARRAY with the fence list and its length.
C24_Request ==
    [][\A b \in Batches : \A e \in Execbufs(b)' :
          /\ e.vl = batches[b].validation_list
          /\ e.bos = batches[b].exec_bos
          /\ e.count = batches[b].exec_count
          /\ e.count = Len(e.vl)
          /\ e.count >= 1
          /\ e.bos[1] \in CmdBOsOf(b)
          /\ \A i \in 1..e.count : e.vl[i].handle = gem_handle(e.bos[i])
          /\ e.start = 0
          /\ e.len % 8 = 0
          /\ e.len >= (IF Chained(b) THEN batches[b].primary_batch_size
                        ELSE iris_batch_bytes_used(batches[b]) + 4)
          /\ e.len < (IF Chained(b) THEN batches[b].primary_batch_size
                       ELSE iris_batch_bytes_used(batches[b]) + 4) + 8
          /\ e.ctx = batches[b].hw_ctx_id
          /\ e.ctx \in ctxLive
          /\ {EngineOf(b), "I915_EXEC_NO_RELOC", "I915_EXEC_BATCH_FIRST",
               "I915_EXEC_HANDLE_LUT"} \subseteq e.flags
          /\ e.flags \cap {EngineOf(a) : a \in Batches} = {EngineOf(b)}
          /\ "I915_EXEC_FENCE_ARRAY" \in e.flags <=>
                 Len(batches[b].exec_fences) > 0
          /\ e.nfences = Len(batches[b].exec_fences)
          /\ e.fences = batches[b].exec_fences]_vars

\* A request for a chained batch with batch_len 16, passing two command
\* buffers, a client BO and the fence the batch signals.
C24_Witness ==
    \E e \in Execbufs(last.b) :
        /\ e.len = 16
        /\ e.count >= 3
        /\ e.nfences >= 1
        /\ "I915_EXEC_FENCE_ARRAY" \in e.flags
        /\ e.bos[2] \in CmdBOsOf(last.b)
        /\ DidWith("flush", last.b, 4)
        /\ batches[last.b].last_syncpt = e.fences[1].handle

\* C25: a step that adds an entry to batch b while exec_count equals
\* exec_array_size doubles exec_array_size, and every entry registered
\* before keeps its slot, BO, handle, address and flags; a step that adds
\* an entry below the capacity leaves the capacity alone; exec_count never
\* exceeds exec_array_size, and no step (a flush included) shrinks
\* exec_array_size.
C25_Growth ==
    [][\A b \in Batches :
          /\ batches[b].exec_count <= batches[b].exec_array_size
          /\ batches'[b].exec_count <= batches'[b].exec_array_size
          /\ batches'[b].exec_array_size >= batches[b].exec_array_size
          /\ batches'[b].exec_count = batches[b].exec_count + 1 =>
                 /\ batches'[b].exec_array_size =
                        (IF batches[b].exec_count = batches[b].exec_array_size
                         THEN 2 * batches[b].exec_array_size
                         ELSE batches[b].exec_array_size)
                 /\ \A i \in 1..batches[b].exec_count :
                        /\ batches'[b].exec_bos[i] = batches[b].exec_bos[i]
                        /\ batches'[b].validation_list[i] =
                               batches[b].validation_list[i]]_vars

\* The array of a batch was full, iris_use_pinned_bo added one more BO and
\* the capacity is twice the initial one, the earlier entries in place.
C25_Witness ==
    \E b \in Batches :
        /\ batches[b].exec_array_size = 2 * ExecArrayInit
        /\ batches[b].exec_count = ExecArrayInit + 1
        /\ Did("append", b)
        /\ \A i \in 1..ExecArrayInit :
               batches[b].validation_list[i].handle =
                   gem_handle(batches[b].exec_bos[i])

\* C26: iris_batch_free(b), in whatever state it is called, releases one
\* reference for each validation slot and one more for batch->bo, so that
\* the reference count of every BO drops by the number of its slots in b,
\* plus one for b's command buffer; it releases each syncpoint of the fence
\* list and last_syncpt, destroys b's hardware context and no other, leaves
\* the other batches alone, and neither flushes nor submits anything.
C26_Teardown ==
    [][\A b \in Batches : LastOp("free", b)' =>
          /\ \A bo \in AllBOs :
                 /\ bos'[bo].refcount =
                        bos[bo].refcount
                        - Cardinality(SlotsOf(batches[b], bo))
                        - (IF batches[b].bo = bo THEN 1 ELSE 0)
                 /\ Cardinality({i \in 1..Len(last'.events) :
                                    last'.events[i] =
                                        Ev("unreference", b, bo)}) =
                        Cardinality(SlotsOf(batches[b], bo))
                        + (IF batches[b].bo = bo THEN 1 ELSE 0)
          /\ CountEv("unreference", b)' = batches[b].exec_count + 1
          /\ CountEv("syncpt_unreference", b)' = Len(batches[b].syncpts) + 1
          /\ \A h \in RangeOf(batches[b].syncpts)
                        \cup {batches[b].last_syncpt} :
                 DidWith("syncpt_unreference", b, h)'
          /\ batches'[b].syncpts = <<>>
          /\ batches'[b].last_syncpt = NULL
          /\ batches'[b].bo = NULL
          /\ batches[b].hw_ctx_id \in ctxLive
          /\ ctxLive' = ctxLive \ {batches[b].hw_ctx_id}
          /\ \A a \in Batches :
                 /\ ~Did("execbuf", a)'
                 /\ ~Did("flush", a)'
                 /\ a # b => batches'[a] = batches[a]
          /\ status' = "teardown"]_vars

\* The render batch was freed after it had recorded commands and chained
\* without a flush: two command buffers and a client BO in its slots.
C26_Witness ==
    /\ LastOp("free", 1)
    /\ batches[1].primary_batch_size >= 16
    /\ CountEv("unreference", 1) >= 4
    /\ CountEv("syncpt_unreference", 1) >= 2
    /\ DidWith("unreference", 1, Min(ClientBOs \ {WorkaroundBO}))
    /\ bos[Min(ClientBOs \ {WorkaroundBO})].refcount >= 1

\* C27: while the program runs, the reference count of every BO is the
\* reference of its owner plus, for each batch, one for the validation slot
\* that holds it (there is at most one) and one if it is the batch's current
\* command buffer.  So each reference use_bo took is gone once the batch was
\* submitted or freed, a client BO is back at its owner's reference when no
\* batch tracks it, and a command buffer of a finished generation, first
\* chunk or continuation, has no reference left.
C27_Balance ==
    status \in {"running", "teardown"} =>
        \A bo \in AllBOs :
            /\ bos[bo].refcount = OwnerRefs(bo) + HeldUpTo(IRIS_BATCH_COUNT, bo)
            /\ \A b \in Batches :
                   batches[b].bo # NULL =>
                       Cardinality(SlotsOf(batches[b], bo)) <= 1

\* A chained batch that tracked a client BO was submitted: the request
\* passed two command buffers and the client BO; now the client BO is held
\* by its owner only, and the only command buffer with a reference is the
\* new one (its memory may be that of a freed chunk).
C27_Witness ==
    /\ status = "running"
    /\ last.op = "flush"
    /\ \E e \in Execbufs(last.b) :
           /\ e.h = "OK"
           /\ \E i, j, k \in 1..e.count :
                  /\ i # j
                  /\ e.bos[i] \in CmdBOsOf(last.b)
                  /\ e.bos[j] \in CmdBOsOf(last.b)
                  /\ e.bos[k] \in ClientBOs /\ bos[e.bos[k]].refcount = 1
    /\ bos[batches[last.b].bo].refcount = 2
    /\ \A x \in CmdBOsOf(last.b) \ {batches[last.b].bo} :
           bos[x].refcount = 0

\* C28: use_bo(b, bo, writable) on a BO that batch b tracks changes nothing
\* but the flags of bo's entry, which gain WRITE if writable is set and bo
\* is not the workaround BO: no reference is taken, exec_count, the
\* footprint, the cached index and the fence list of b stay as they are,
\* every sibling batch stays as it is, and the call does nothing but find
\* the entry, whether or not a sibling tracks the BO.
C28_AlreadyTracked ==
    [][\A b \in Batches, bo \in ClientBOs, wr \in BOOLEAN :
          (LastUse(b, bo, wr)' /\ Tracks(b, bo)) =>
              /\ bos' = bos
              /\ ctxLive' = ctxLive
              /\ status' = status
              /\ \A a \in Batches \ {b} : batches'[a] = batches[a]
              /\ \E i \in SlotsOf(batches[b], bo) :
                     /\ last'.events =
                            <<[Ev("existing", b, i - 1) EXCEPT
                                 !.flags = batches[b].validation_list[i].flags]>>
                     /\ batches'[b] =
                            [batches[b] EXCEPT
                               !.validation_list[i].flags =
                                   IF wr /\ bo # WorkaroundBO
                                   THEN @ \cup {"WRITE"}
                                   ELSE @]]_vars

\* A read entry was upgraded to WRITE while a sibling batch with recorded
\* commands tracks the same BO.
C28_Witness ==
    /\ last.op = "use_bo" /\ last.writable
    /\ \E i \in 1..Len(last.events) :
           /\ last.events[i].ev = "existing"
           /\ "WRITE" \notin last.events[i].flags
    /\ WritesBO(last.b, last.bo)
    /\ \E s \in Batches \ {last.b} :
           /\ Tracks(s, last.bo)
           /\ iris_batch_bytes_used(batches[s]) > 0

\* C29: use_bo(b, workaround BO, writable), whatever writable is and whatever
\* the sibling batches track or have recorded, flushes no batch, submits
\* nothing, adds no fence to b's fence list and leaves every sibling batch
\* as it is.
C29_WorkaroundNoDependency ==
    [][\A b \in Batches, wr \in BOOLEAN :
          LastUse(b, WorkaroundBO, wr)' =>
              /\ \A a \in Batches :
                     /\ ~Did("flush", a)'
                     /\ ~Did("execbuf", a)'
                     /\ ~Did("wait", a)'
                     /\ a # b => batches'[a] = batches[a]
              /\ batches'[b].exec_fences = batches[b].exec_fences
              /\ batches'[b].syncpts = batches[b].syncpts
              /\ status' = status]_vars

\* The workaround BO was newly added to a batch by a use_bo that asked for
\* write access, while the sibling batch tracks it and has recorded commands.
C29_Witness ==
    /\ LastUse(last.b, WorkaroundBO, TRUE)
    /\ DidWith("append", last.b, WorkaroundBO)
    /\ \E s \in Batches \ {last.b} :
           /\ Tracks(s, WorkaroundBO)
           /\ iris_batch_bytes_used(batches[s]) > 0

\* C30: a flush of batch b, its reset included, and a record on b, with the
\* chaining it may do, flush no other batch, add no wait fence and leave the
\* sibling batches as they are; a use_bo on b flushes each sibling at most
\* once, never flushes b itself, adds at most one wait per sibling to b and
\* none to a sibling.
C30_NoCascade ==
    [][\A b \in Batches :
          /\ (LastOp("flush", b)' \/ LastOp("record", b)') =>
                 /\ CountEv("flush", b)' <= 1
                 /\ \A a \in Batches :
                        /\ ~Did("wait", a)'
                        /\ a # b => /\ ~Did("flush", a)'
                                     /\ ~Did("execbuf", a)'
                                     /\ ~Did("append", a)'
                                     /\ batches'[a] = batches[a]
          /\ LastOp("use_bo", b)' =>
                 /\ ~Did("flush", b)'
                 /\ ~Did("execbuf", b)'
                 /\ CountEv("append", b)' <= 1
                 /\ CountEv("wait", b)' <= IRIS_BATCH_COUNT - 1
                 /\ \A s \in Batches \ {b} :
                        /\ CountEv("flush", s)' <= 1
                        /\ CountEv("execbuf", s)' <= 1
                        /\ CountEv("append", s)' <= 1
                        /\ ~Did("wait", s)']_vars

\* A use_bo made a sibling with recorded commands flush: the sibling was
\* submitted once and reset, registering its new command buffer, and the
\* caller got its one wait after that.
C30_Witness ==
    /\ last.op = "use_bo"
    /\ status = "running"
    /\ \E s \in Batches \ {last.b} :
           /\ CountEv("flush", s) = 1
           /\ CountEv("execbuf", s) = 1
           /\ DidWith("append", s, batches[s].bo)
           /\ DidBefore("append", s, "wait", last.b)
           /\ DidBefore("wait", last.b, "append", last.b)

\* C31: while the program runs, every batch has a fence descriptor list and
\* a syncpoint list of equal length >= 1, element 0 the SIGNAL descriptor of
\* the batch's own completion syncpoint, the others WAIT descriptors of
\* sibling syncpoints.  A step that submits batch b leaves b with the one
\* SIGNAL descriptor of a syncpoint created in the step, the old one being
\* last_syncpt; any other step appends to b's list exactly the waits that
\* hazard resolution recorded for b in that step.
C31_FenceShape ==
    [][status' = "running" =>
          \A b \in Batches :
              /\ FenceShape(b)
              /\ FenceShape(b)'
              /\ IF Did("execbuf", b)'
                 THEN /\ Len(batches'[b].exec_fences) = 1
                      /\ batches'[b].syncpts[1] # batches[b].syncpts[1]
                      /\ batches'[b].last_syncpt = batches[b].syncpts[1]
                      /\ batches'[b].syncpts[1] \notin
                             {batches[a].last_syncpt : a \in Batches}
                 ELSE /\ batches'[b].exec_fences =
                             batches[b].exec_fences \o WaitsRecorded(b)'
                      /\ batches'[b].syncpts[1] = batches[b].syncpts[1]]_vars

\* A batch that carried a wait for its sibling was submitted: its lists now
\* hold the new SIGNAL fence only.
C31_Witness ==
    /\ status = "running"
    /\ \E b \in Batches :
           /\ \E e \in Execbufs(b) :
                  /\ e.nfences = 2
                  /\ e.fences[2].flags = "WAIT"
           /\ Len(batches[b].exec_fences) = 1
           /\ Len(batches[b].syncpts) = 1
           /\ batches[b].exec_fences[1].flags = "SIGNAL"

\* C32: while the program runs, exec_bos and validation_list of every batch
\* have exec_count elements, and validation_list[i] describes exec_bos[i]:
\* the handle is the BO's gem_handle (what dump_validation_list asserts), the
\* offset is the BO's gtt_offset, and the flags are the BO's kflags, with or
\* without EXEC_OBJECT_WRITE.
C32_ParallelArrays ==
    status = "running" =>
        \A b \in Batches :
            /\ Len(batches[b].exec_bos) = batches[b].exec_count
            /\ Len(batches[b].validation_list) = batches[b].exec_count
            /\ \A i \in 1..batches[b].exec_count :
                   /\ batches[b].exec_bos[i] # NULL
                   /\ batches[b].validation_list[i].handle =
                          gem_handle(batches[b].exec_bos[i])
                   /\ batches[b].validation_list[i].offset =
                          gtt_offset(batches[b].exec_bos[i])
                   /\ batches[b].validation_list[i].flags \ {"WRITE"} =
                          bo_kflags(batches[b].exec_bos[i])

\* A chained batch that tracks both client BOs, one written and one read:
\* four entries, past the initial capacity.
C32_Witness ==
    /\ status = "running"
    /\ \E b \in Batches :
           /\ batches[b].exec_count > ExecArrayInit
           /\ \E x, y \in ClientBOs :
                  /\ Tracks(b, x) /\ WritesBO(b, x)
                  /\ Tracks(b, y) /\ ~WritesBO(b, y)

\* C33: when batch b is submitted, primary_batch_size is the size of its
\* first chunk: the bytes recorded plus the 4 bytes of the end command when
\* b is not chained, and the value taken when b chained, the bytes recorded
\* in the first chunk plus the 12 bytes of the jump, when it is; between the
\* chain and the submission the value does not change, and after the reset
\* that follows a submission it is 0.
C33_PrimarySize ==
    [][\A b \in Batches :
          /\ \A e \in Execbufs(b)' :
                 e.primary = IF Chained(b)
                             THEN batches[b].primary_batch_size
                             ELSE iris_batch_bytes_used(batches[b]) + 4
          /\ (Did("chain", b)' /\ ~Chained(b) /\ status' = "running") =>
                 batches'[b].primary_batch_size =
                     iris_batch_bytes_used(batches[b]) + 12
          /\ (Chained(b) /\ ~Did("chain", b)' /\ ~Did("execbuf", b)') =>
                 batches'[b].primary_batch_size =
                     batches[b].primary_batch_size
          /\ (~Chained(b) /\ ~Did("chain", b)' /\ ~Did("execbuf", b)') =>
                 /\ batches[b].primary_batch_size = 0
                 /\ batches'[b].primary_batch_size = 0
          /\ (Did("execbuf", b)' /\ status' = "running") =>
                 batches'[b].primary_batch_size = 0]_vars

\* A chained batch with commands in its continuation chunk was submitted
\* with the size frozen at the chain, 16, while the continuation held 4
\* bytes, 8 with its end command.
C33_Witness ==
    /\ last.op = "flush"
    /\ status = "running"
    /\ \E e \in Execbufs(last.b) :
           /\ e.count >= 2
           /\ e.bos[2] \in CmdBOsOf(last.b)
           /\ e.primary = 16
           /\ DidWith("flush", last.b, 4)
    /\ batches[last.b].primary_batch_size = 0

\* C34: a chunk never holds more than BATCH_SZ recorded bytes, a multiple of
\* 4; the end command written when the batch is submitted and the jump
\* written when it chains end within the chunk's buffer of BATCH_SZ +
\* BATCH_RESERVED bytes, also after rounding up to a multiple of 8, and the
\* batch_len of every submission is at most the size of the command buffer
\* in slot 0.
C34_ReservedTail ==
    [][\A b \in Batches :
          /\ iris_batch_bytes_used(batches[b]) <= BATCH_SZ
          /\ iris_batch_bytes_used(batches[b]) % 4 = 0
          /\ \A e \in Execbufs(b)' :
                 /\ e.len <= bo_size(e.bos[1])
                 /\ e.primary <= e.len
                 /\ ALIGN8(iris_batch_bytes_used(batches[b]) + 4)
                        <= bo_size(batches[b].bo)
          /\ Did("chain", b)' =>
                 ALIGN8(iris_batch_bytes_used(batches[b]) + 12)
                     <= bo_size(batches[b].bo)]_vars

\* A batch whose continuation chunk holds BATCH_SZ recorded bytes was
\* submitted.
C34_Witness ==
    /\ last.op = "flush"
    /\ DidWith("flush", last.b, BATCH_SZ)
    /\ \E e \in Execbufs(last.b) :
           /\ e.count >= 2
           /\ e.len >= 16

\* C35: when maybe_flush(b) returns, batch b is not chained, whatever its
\* continuation chunk held at the call; so a chain_to_new_batch(b) that
\* directly follows a maybe_flush(b) does not fail the assertion of line 442.
C35_MaybeFlushUnchains ==
    [][\A b \in Batches :
          /\ (LastOp("maybe_flush", b)' /\ status' = "running") =>
                 ~Chained(b)'
          /\ (LastOp("maybe_flush", b) /\ LastOp("chain", b)') =>
                 ~Did("assert", b)']_vars

\* C36: in a flush of batch b whose submission fails with EIO and whose
\* context is cloned, the steps come in this order: the submission; the
\* release of the reference of every tracked BO; the promotion of the
\* signalled syncpoint to last_syncpt; the reset, which registers the new
\* command buffer in slot 0 and adds the fresh signal fence; the clone of
\* the context, the destruction of the old one and the state-lost
\* notification for the new one; and last the reset callback, if there is
\* one.
C36_Ordering ==
    [][\A b \in Batches : \A e \in Execbufs(b)' :
          (e.h = "EIO" /\ Cloned(b)') =>
              /\ last'.events[1].ev = "flush"
              /\ last'.events[2] = e
              /\ CountEv("unreference", b)' = e.count
              /\ \A i \in 1..e.count :
                     last'.events[2 + i] = Ev("unreference", b, e.bos[i])
              /\ AllBefore("unreference", "promote", b)'
              /\ AllBefore("promote", "append", b)'
              /\ AllBefore("append", "signal", b)'
              /\ AllBefore("signal", "clone", b)'
              /\ AllBefore("clone", "destroy_hw_context", b)'
              /\ AllBefore("destroy_hw_context", "lost_state", b)'
              /\ \E h \in SyncptsOf(b) :
                     /\ h = batches[b].syncpts[1]
                     /\ h = batches'[b].last_syncpt
                     /\ DidWith("promote", b, h)'
              /\ DidWith("destroy_hw_context", b, e.ctx)'
              /\ \E c \in CtxOf(b) :
                     /\ c = batches'[b].hw_ctx_id
                     /\ DidWith("clone", b, c)'
                     /\ DidWith("lost_state", b, c)'
              /\ \E bo \in CmdBOsOf(b) :
                     /\ bo = batches'[b].bo
                     /\ batches'[b].exec_bos = <<bo>>
                     /\ DidWith("append", b, bo)'
              /\ IF scen.reset
                 THEN /\ AllBefore("lost_state", "reset_cb", b)'
                      /\ LastEv'.ev = "reset_cb"
                 ELSE LastEv'.ev = "lost_state"]_vars

\* A flush of a batch that tracked a client BO failed with EIO, replaced
\* the context and called the reset callback.
C36_Witness ==
    /\ last.op = "flush"
    /\ status = "running"
    /\ DidWith("execbuf", last.b, "EIO")
    /\ \E bo \in ClientBOs : DidWith("unreference", last.b, bo)
    /\ AllBefore("promote", "clone", last.b)
    /\ LastEv.ev = "reset_cb"

\* C37: hw_ctx_id of every batch that was not freed names a hardware context
\* that was created and not destroyed, and no two batches share one.  A step
\* in which the clone fails leaves hw_ctx_id and the live contexts as they
\* were; a step in which it succeeds installs the clone, which was not live
\* before, and destroys the old context only; iris_batch_free destroys the
\* batch's context only; no other step creates or destroys a context, and
\* every context that is destroyed was live.
C37_LiveContext ==
    [][\A b \in Batches :
          /\ batches'[b].bo # NULL =>
                 /\ batches'[b].hw_ctx_id \in ctxLive'
                 /\ batches'[b].hw_ctx_id # NULL
                 /\ \A a \in Batches \ {b} :
                        batches'[a].hw_ctx_id # batches'[b].hw_ctx_id
          /\ CountEv("destroy_hw_context", b)' <= 1
          /\ \A c \in CtxOf(b) :
                 DidWith("destroy_hw_context", b, c)' =>
                     /\ c \in ctxLive
                     /\ c \notin ctxLive'
                     /\ c = batches[b].hw_ctx_id
          /\ IF Cloned(b)'
             THEN /\ batches'[b].hw_ctx_id \notin ctxLive
                  /\ batches'[b].hw_ctx_id # batches[b].hw_ctx_id
                  /\ ctxLive' = (ctxLive \ {batches[b].hw_ctx_id})
                                    \cup {batches'[b].hw_ctx_id}
             ELSE /\ batches'[b].hw_ctx_id = batches[b].hw_ctx_id
                  /\ LastOp("free", b)' =>
                         ctxLive' = ctxLive \ {batches[b].hw_ctx_id}
                  /\ (last'.b = b /\ last'.op # "free") =>
                         ctxLive' = ctxLive]_vars

\* A clone failed in check_for_reset and the batch kept its live context,
\* after an earlier flush had replaced the initial one.
C37_Witness ==
    /\ last.op = "check_for_reset"
    /\ DidWith("clone", last.b, NULL)
    /\ status = "running"
    /\ batches[last.b].hw_ctx_id \in ctxLive
    /\ batches[last.b].hw_ctx_id # Min(CtxOf(last.b))

\* Observations of the last call on the virgl resource.
VDid(ev) == \E i \in DOMAIN virgl.events : virgl.events[i].ev = ev

\* Every step ev of the last call is followed by a step ev2 on the resource
\* that ev named.
VFollowed(ev, ev2) ==
    \A i \in DOMAIN virgl.events :
        virgl.events[i].ev = ev =>
            \E j \in DOMAIN virgl.events :
                j > i /\ virgl.events[j] = VEv(ev2, virgl.events[i].res)

\* Every step ev of the last call comes after a step ev2.
VPreceded(ev, ev2) ==
    \A i \in DOMAIN virgl.events :
        virgl.events[i].ev = ev =>
            \E j \in DOMAIN virgl.events : j < i /\ virgl.events[j].ev = ev2

\* The transfer of the last call.
VXfer == [usage |-> virgl.usage, box |-> virgl.box]

WouldBlock(v, xfer, d) ==
    d.readback \/ (d.wait /\ resource_is_busy(PrepareFlush(v, d)))

====
